---- MODULE Spec2Model ----
(***************************************************************************)
(* A model of yappy's type-mapping and composite-conversion engine         *)
(* (src/yappy/types.py): the Parameter Types (scalar, none, enum choice,   *)
(* tuple, mapping, union), their arity, their construction and their       *)
(* conversion of raw command-line tokens; and of its option-assembly layer *)
(* (src/yappy/main.py): the option built for a model field, its validation *)
(* callback, and the decorator that attaches the options of a model.       *)
(***************************************************************************)
EXTENDS Integers, Sequences, FiniteSets, TLC

VARIABLES
    op,        \* the operation that produced the current state
    ptype,     \* the Parameter Type the last constructor call returned
    cfgError,  \* the exception the last constructor call raised ("" if none)
    args,      \* the subtypes handed to the last constructor call
    raw,       \* the raw value handed to the last convert call
    outcome,   \* what that convert call returned or raised
    calls,     \* the calls that convert made to its direct subtypes, in order
    caseArg,   \* the case_sensitive argument of the last EnumChoice(...) call
    field,     \* the field handed to the last match_click_type_from_field call
    types,     \* the candidate types handed to the last match_click_type call
    kwargs,    \* extra_types and case_sensitive_enums of the last such call
    default,        \* the value handed to the last convert_default call
    normalized,     \* what that call returned
    mfield,         \* the model field of the last option_from_model_field call
    config,         \* the flags and extra_types given to that call
    option_kwargs,  \* the option settings the caller passed through to it
    option,         \* the option that call built
    callback,       \* the callback create_field_validator returned
    model,          \* the model's field table: its field names, in order
    include,        \* the include given to options_from_model
    exclude,        \* the exclude given to options_from_model
    to_kwarg,       \* the to_kwarg given to options_from_model
    field_names,    \* what calculate_fields returned to the decorator
    options,        \* the options the decorator built, in the order built
    func,           \* the options attached to the function, in attach order
    inArgs,         \* the positional arguments the wrapper was called with
    inKwargs,       \* the keyword arguments the wrapper was called with
    funcCalls,      \* the calls the last wrapper call made to the function
    warned,         \* the warnings emitted by the last wrapper call
    result          \* what the last wrapper call returned

resolveVars == <<field, types, kwargs>>

optionVars ==
    <<default, normalized, mfield, config, option_kwargs, option, callback>>

decoratorVars ==
    <<model, include, exclude, to_kwarg, field_names, options, func, inArgs,
      inKwargs, funcCalls, warned, result>>

mainVars == <<optionVars, decoratorVars>>

vars ==
    <<op, ptype, cfgError, args, raw, outcome, calls, caseArg, field, types,
      kwargs, default, normalized, mfield, config, option_kwargs, option,
      callback, model, include, exclude, to_kwarg, field_names, options, func, inArgs,
      inKwargs, funcCalls, warned, result>>

(***************************************************************************)
(* Bounds of the model.                                                    *)
(***************************************************************************)
\* the largest Parameter Type built, counted in nodes (the type and all its
\* nested subtypes)
MaxSize == 5
\* the longest raw token tuple handed to convert
MaxLen == 3
\* the most members an enumeration has
MaxMembers == 3
\* the largest field resolved, counted in fields (the field, its sub-fields
\* and key field, and theirs)
MaxFieldSize == 3

\* the raw command-line tokens
Tokens == {"1", "a"}

(***************************************************************************)
(* Parameter Types.  A type is a record: its kind and, for the composite   *)
(* kinds, its subtypes.                                                    *)
(***************************************************************************)
PT(kind, subs) == [kind |-> kind, subs |-> subs]

NoType == PT("", <<>>)

\* click.INT and click.STRING, what click.types.convert_type(int / str) gives
INT == PT("INT", <<>>)
STR == PT("STRING", <<>>)
\* the NoneType singleton
NONE == PT("NONE", <<>>)

TupleType(subtypes) == PT("TUPLE", subtypes)
MappingType(key_type, value_type) == PT("MAPPING", <<key_type, value_type>>)
UnionOf(subtypes) == PT("UNION", subtypes)

IsTupleKind(t) == t.kind \in {"TUPLE", "MAPPING"}

RECURSIVE SumArity(_)
RECURSIVE Arity(_)
\* sum(i.arity for i in self._subtypes)
SumArity(subs) ==
    IF subs = <<>> THEN 0 ELSE Arity(Head(subs)) + SumArity(Tail(subs))

\* the arity attribute / property of each Parameter Type
Arity(t) ==
    CASE t.kind = "NONE" -> 0
      [] IsTupleKind(t) -> SumArity(t.subs)
      [] t.kind = "UNION" -> Arity(t.subs[1])
      [] OTHER -> 1

(***************************************************************************)
(* Fields, candidate types and resolution settings.  A candidate type is a *)
(* Python type, named, or a Parameter Type instance.                       *)
(***************************************************************************)
Py(name) == [ck |-> "py", name |-> name]
Param(t) == [ck |-> "param", pt |-> t]

\* a pydantic ModelField: shape, type_, sub_fields and key_field (a sequence
\* of none or one field)
Field(shape, type_, sub_fields, key_field) ==
    [shape |-> shape, type_ |-> type_, sub_fields |-> sub_fields,
     key_field |-> key_field]

NoField == Field("", Py(""), <<>>, <<>>)

\* kwargs = {"extra_types": ..., "case_sensitive_enums": ...}; a dict is the
\* set of its (key, value) pairs
Kwargs(extra_types, case_sensitive_enums) ==
    [extra_types |-> extra_types,
     case_sensitive_enums |-> case_sensitive_enums]

\* the defaults: extra_types={}, case_sensitive_enums=False
NoKwargs == Kwargs({}, FALSE)

(***************************************************************************)
(* Construction.  UnionType.__init__ validates its subtypes; TupleType and *)
(* MappingType accept anything.                                            *)
(***************************************************************************)
ArityOf(subs) == {Arity(subs[i]) : i \in 1..Len(subs)}

\* a mutation of UnionInitError: the arity comparison is dropped
UnionInitErrorNoArityCheck(subs) ==
    IF Len(subs) < 2 THEN "ValueError" ELSE ""

\* a mutation of UnionInitError: a single subtype is let through
UnionInitErrorAllowsOne(subs) ==
    IF Len(subs) < 1 THEN "ValueError"
    ELSE IF Cardinality(ArityOf(subs)) > 1 THEN "TypeError"
    ELSE ""

\* the exception UnionType.__init__ raises on these subtypes, "" if none
UnionInitError(subs) ==
    IF Len(subs) < 2 THEN "ValueError"
    ELSE IF Cardinality(ArityOf(subs)) > 1 THEN "TypeError"
    ELSE ""

(***************************************************************************)
(* The Parameter Types of at most MaxSize nodes, and the subtype sequences *)
(* a constructor can be handed.                                            *)
(***************************************************************************)
Leaves == {INT, STR, NONE}

RECURSIVE TypesOfSize(_)
RECURSIVE SeqsOfSize(_)
\* the sequences of types whose sizes add up to m
SeqsOfSize(m) ==
    IF m = 0 THEN {<<>>}
    ELSE UNION {{<<t>> \o s : t \in TypesOfSize(k), s \in SeqsOfSize(m - k)} :
                k \in 1..m}

\* the types of exactly n nodes that the constructors build
TypesOfSize(n) ==
    LET below == SeqsOfSize(n - 1)
    IN (IF n = 1 THEN Leaves ELSE {})
       \cup {TupleType(s) : s \in below}
       \cup {MappingType(s[1], s[2]) : s \in {x \in below : Len(x) = 2}}
       \cup {UnionOf(s) : s \in {x \in below : UnionInitError(x) = ""}}

SubtypeSeqs == UNION {SeqsOfSize(m) : m \in 0..(MaxSize - 1)}

(***************************************************************************)
(* Values.  Raw tokens are strings; a raw value is one token or a tuple of *)
(* tokens.  Converted values are tagged with their Python type.            *)
(***************************************************************************)
Val(vk, tok, items) == [vk |-> vk, tok |-> tok, items |-> items]

Tok(s) == Val("str", s, <<>>)
Tup(items) == Val("tuple", "", items)
IntV(s) == Val("int", s, <<>>)
NoneV == Val("none", "", <<>>)

RECURSIVE TokenSeqs(_)
TokenSeqs(n) ==
    IF n = 0 THEN {<<>>}
    ELSE {<<>>} \cup {<<Tok(s)>> \o r : s \in Tokens, r \in TokenSeqs(n - 1)}

\* one token, or a flat tuple of up to MaxLen tokens
RawValues == {Tok(s) : s \in Tokens} \cup {Tup(r) : r \in TokenSeqs(MaxLen)}

RECURSIVE TakesTuple(_)
\* the types whose convert handles a tuple of tokens itself: the scalar types
\* are handed single tokens, by click (nargs = 1) and by TupleType.convert
TakesTuple(t) ==
    \/ t.kind \in {"TUPLE", "MAPPING", "NONE"}
    \/ /\ t.kind = "UNION"
       /\ \A i \in 1..Len(t.subs) : TakesTuple(t.subs[i])

(***************************************************************************)
(* Outcomes of a conversion: a value, or an exception with the type that   *)
(* raised it and the value it was raised about.                            *)
(***************************************************************************)
Ok(v) ==
    [ok |-> TRUE, val |-> v, exc |-> "", by |-> "", about |-> NoneV,
     listed |-> <<>>]
\* self.fail(...) of a Choice names the value and lists the choices
RaiseListing(exc, by, about, listed) ==
    [ok |-> FALSE, val |-> NoneV, exc |-> exc, by |-> by, about |-> about,
     listed |-> listed]
Raise(exc, by, about) == RaiseListing(exc, by, about, <<>>)

NoOutcome == Raise("", "", NoneV)

\* the tokens int() accepts
IntTokens == {"1"}

\* click.INT.convert: int(value); the ValueError of a token that is no
\* number becomes BadParameter, the TypeError of a list or tuple is not caught
IntConvert(v) ==
    IF v.vk = "str" /\ v.tok \in IntTokens THEN Ok(IntV(v.tok))
    ELSE IF v.vk \in {"list", "tuple"} THEN Raise("TypeError", "INT", v)
    ELSE Raise("BadParameter", "INT", v)

\* click.STRING.convert: a str is returned as it is, of any other value its
\* str(value)
StringConvert(v) ==
    IF v.vk \in {"list", "tuple"} THEN Ok(Val("str", "repr", v.items))
    ELSE Ok(v)

\* NoneType.convert
NoneConvert(v) == Ok(NoneV)

\* click.UNPROCESSED.convert
UnprocessedConvert(v) == Ok(v)

(***************************************************************************)
(* TupleType.convert and UnionType.convert.                                *)
(***************************************************************************)
Take(s, n) == SubSeq(s, 1, IF n < Len(s) THEN n ELSE Len(s))
Drop(s, n) == SubSeq(s, (IF n < Len(s) THEN n ELSE Len(s)) + 1, Len(s))

\* if not isinstance(value, tuple): value = (value,)
AsTuple(v) == IF v.vk = "tuple" THEN v.items ELSE <<v>>

\* remain_values[0] on an empty list
IndexFails(remain, arity) == arity = 1 /\ remain = <<>>

\* a mutation of SubtypeValue: an arity-1 subtype is handed a 1-tuple
SubtypeValueAlwaysTuple(remain, arity) == Tup(Take(remain, arity))

\* a mutation of SubtypeValue: the window is one token too long
SubtypeValueTooLong(remain, arity) ==
    IF arity = 1 THEN remain[1] ELSE Tup(Take(remain, arity + 1))

\* the value the next subtype is called with
SubtypeValue(remain, arity) ==
    IF arity = 1 THEN remain[1] ELSE Tup(Take(remain, arity))

\* a mutation of RemainAfter: the cursor advances by one token per subtype
RemainAfterOne(remain, arity) == Drop(remain, 1)

\* remain_values = remain_values[subtype.arity :]
RemainAfter(remain, arity) == Drop(remain, arity)

\* except click.BadParameter as e
UnionCatches(r) == r.exc = "BadParameter"

RECURSIVE Convert(_, _)
RECURSIVE TupleLoop(_, _, _, _)
RECURSIVE UnionLoop(_, _, _, _)

\* ParamType.__call__: subtype(value) converts any value that is not None
Call(subtype, v) == Convert(subtype, v)

\* for subtype in self._subtypes: ... ; return tuple(results)
TupleLoop(subs, remain, results, log) ==
    IF subs = <<>> THEN [out |-> Ok(Tup(results)), calls |-> log]
    ELSE LET subtype == Head(subs)
             a == Arity(subtype)
         IN IF IndexFails(remain, a)
            THEN [out |-> Raise("IndexError", "TUPLE", NoneV), calls |-> log]
            ELSE LET sv == SubtypeValue(remain, a)
                     r == Call(subtype, sv)
                     log2 == Append(log, [arg |-> sv, out |-> r])
                 IN IF r.ok
                    THEN TupleLoop(Tail(subs), RemainAfter(remain, a),
                                   Append(results, r.val), log2)
                    ELSE [out |-> r, calls |-> log2]

\* for subtype in self._subtypes: try ... except ... ; raise error
UnionLoop(subs, v, error, log) ==
    IF subs = <<>> THEN [out |-> error, calls |-> log]
    ELSE LET r == Call(Head(subs), v)
             log2 == Append(log, [arg |-> v, out |-> r])
         IN IF r.ok THEN [out |-> r, calls |-> log2]
            ELSE IF UnionCatches(r) THEN UnionLoop(Tail(subs), v, r, log2)
            ELSE [out |-> r, calls |-> log2]

\* TupleType.convert (MappingType inherits it)
TupleConvert(t, v) == TupleLoop(t.subs, AsTuple(v), <<>>, <<>>)

Reverse(s) == [i \in 1..Len(s) |-> s[Len(s) + 1 - i]]

\* a mutation of UnionConvert: the subtypes are tried last to first
UnionConvertReversed(t, v) ==
    UnionLoop(Reverse(t.subs), v, Raise("UnboundLocalError", "UNION", NoneV),
              <<>>)

\* UnionType.convert; error is unbound until a subtype has failed
UnionConvert(t, v) ==
    UnionLoop(t.subs, v, Raise("UnboundLocalError", "UNION", NoneV), <<>>)

\* convert with the calls it makes to its direct subtypes
ConvertLog(t, v) ==
    CASE IsTupleKind(t) -> TupleConvert(t, v)
      [] t.kind = "UNION" -> UnionConvert(t, v)
      [] t.kind = "INT" -> [out |-> IntConvert(v), calls |-> <<>>]
      [] t.kind = "STRING" -> [out |-> StringConvert(v), calls |-> <<>>]
      [] t.kind = "NONE" -> [out |-> NoneConvert(v), calls |-> <<>>]
      [] OTHER -> [out |-> UnprocessedConvert(v), calls |-> <<>>]

Convert(t, v) == ConvertLog(t, v).out

(***************************************************************************)
(* The data of the option-assembly layer (src/yappy/main.py).              *)
(***************************************************************************)
\* an Optional argument: None, or a value
Some(v) == [given |-> TRUE, v |-> v]
NoSet == [given |-> FALSE, v |-> {}]
NoName == [given |-> FALSE, v |-> ""]

\* Python values beside tokens and tuples
BoolV(s) == Val("bool", s, <<>>)
ListV(items) == Val("list", "", items)

\* a pydantic ModelField as main.py reads it: its name, what type resolution
\* reads of it (shape, type_, sub_fields, key_field), its default, its
\* required flag, field_info.description, field_info.extra["env_names"]
ModelField(name, f, default_, required, description, env_names) ==
    [name |-> name, field |-> f, default |-> default_, required |-> required,
     description |-> description, env_names |-> env_names]

NoModelField == ModelField("", NoField, NoneV, FALSE, "", <<>>)

\* the keyword arguments of option_from_model_field beside **option_kwargs
Config(apply_model_validators, apply_env_vars, bool_as_flag, case_sensitive_enums, extra_types) ==
    [apply_model_validators |-> apply_model_validators,
     apply_env_vars |-> apply_env_vars, bool_as_flag |-> bool_as_flag,
     case_sensitive_enums |-> case_sensitive_enums,
     extra_types |-> extra_types]

\* the defaults of these keyword arguments
DefaultConfig == Config(TRUE, TRUE, TRUE, FALSE, {})

\* click.option(key, field_name, **option_kwargs)
Option(key, name, settings) ==
    [key |-> key, name |-> name, settings |-> settings]

NoOption == Option("", "", <<>>)

\* the closure create_field_validator returns: field_validator, with the
\* field, the model and apply_model_validators it captured
FieldValidator(f, model_, apply_model_validators) ==
    [fn |-> "field_validator", field |-> f, model |-> model_,
     apply_model_validators |-> apply_model_validators]

NoCallback == FieldValidator(NoModelField, <<>>, FALSE)

InitMain ==
    /\ default = NoneV
    /\ normalized = NoneV
    /\ mfield = NoModelField
    /\ config = DefaultConfig
    /\ option_kwargs = <<>>
    /\ option = NoOption
    /\ callback = NoCallback
    /\ model = <<>>
    /\ include = NoSet
    /\ exclude = NoSet
    /\ to_kwarg = NoName
    /\ field_names = <<>>
    /\ options = <<>>
    /\ func = <<>>
    /\ inArgs = <<>>
    /\ inKwargs = <<>>
    /\ funcCalls = <<>>
    /\ warned = <<>>
    /\ result = NoneV

(***************************************************************************)
(* The conversion engine as a state machine: a Parameter Type is built     *)
(* once, then converts raw values any number of times.                     *)
(***************************************************************************)
InitConv ==
    /\ op = "init"
    /\ ptype = NoType
    /\ cfgError = ""
    /\ args = <<>>
    /\ raw = NoneV
    /\ outcome = NoOutcome
    /\ calls = <<>>
    /\ caseArg = FALSE
    /\ field = NoField
    /\ types = <<>>
    /\ kwargs = NoKwargs
    /\ InitMain

Unbuilt == op = "init"
Built == ptype # NoType /\ op # "convert"

\* click.types.convert_type(...) / the NONE singleton
LeafInit ==
    /\ Unbuilt
    /\ \E t \in Leaves : ptype' = t
    /\ op' = "leaf"
    /\ UNCHANGED <<cfgError, args, raw, outcome, calls, caseArg>>
    /\ UNCHANGED resolveVars
    /\ UNCHANGED mainVars

\* TupleType(subtypes)
TupleTypeInit ==
    /\ Unbuilt
    /\ \E subs \in SubtypeSeqs :
        /\ args' = subs
        /\ ptype' = TupleType(subs)
    /\ op' = "TupleType"
    /\ UNCHANGED <<cfgError, raw, outcome, calls, caseArg>>
    /\ UNCHANGED resolveVars
    /\ UNCHANGED mainVars

\* MappingType(key_type, value_type)
MappingTypeInit ==
    /\ Unbuilt
    /\ \E subs \in {s \in SubtypeSeqs : Len(s) = 2} :
        /\ args' = subs
        /\ ptype' = MappingType(subs[1], subs[2])
    /\ op' = "MappingType"
    /\ UNCHANGED <<cfgError, raw, outcome, calls, caseArg>>
    /\ UNCHANGED resolveVars
    /\ UNCHANGED mainVars

\* UnionType(subtypes): raises, or returns the union
UnionTypeInit ==
    /\ Unbuilt
    /\ \E subs \in SubtypeSeqs :
        /\ args' = subs
        /\ cfgError' = UnionInitError(subs)
        /\ ptype' = IF UnionInitError(subs) = "" THEN UnionOf(subs) ELSE NoType
    /\ op' = "UnionType"
    /\ UNCHANGED <<raw, outcome, calls, caseArg>>
    /\ UNCHANGED resolveVars
    /\ UNCHANGED mainVars

\* ptype.convert(value, param=None, ctx=None)
DoConvert ==
    /\ Built
    /\ \E v \in RawValues :
        LET res == ConvertLog(ptype, v)
        IN /\ v.vk = "tuple" => TakesTuple(ptype)
           /\ raw' = v
           /\ outcome' = res.out
           /\ calls' = res.calls
    /\ op' = "convert"
    /\ UNCHANGED <<ptype, cfgError, args, caseArg>>
    /\ UNCHANGED resolveVars
    /\ UNCHANGED mainVars

\* convert has returned or raised; the type is unchanged and can be used again
Return ==
    /\ op = "convert"
    /\ op' = "returned"
    /\ raw' = NoneV
    /\ outcome' = NoOutcome
    /\ calls' = <<>>
    /\ UNCHANGED <<ptype, cfgError, args, caseArg>>
    /\ UNCHANGED resolveVars
    /\ UNCHANGED mainVars

NextConv ==
    \/ LeafInit
    \/ TupleTypeInit
    \/ MappingTypeInit
    \/ UnionTypeInit
    \/ DoConvert
    \/ Return

SpecConv == InitConv /\ [][NextConv]_vars

(***************************************************************************)
(* TupleType.convert on the sequences it can be handed: the tuple click    *)
(* builds of the command line's tokens, and the list convert_default makes *)
(* of a field's default (click converts an option's default with its type).*)
(***************************************************************************)
\* one token, or a flat tuple or list of up to MaxLen tokens
SequenceValues ==
    RawValues \cup {ListV(r) : r \in TokenSeqs(MaxLen)}

\* ptype.convert(value, param=None, ctx=None), ptype a Tuple or a Mapping
ConvertSequence ==
    /\ Built
    /\ IsTupleKind(ptype)
    /\ \E v \in SequenceValues :
        LET res == ConvertLog(ptype, v)
        IN /\ raw' = v
           /\ outcome' = res.out
           /\ calls' = res.calls
    /\ op' = "convert"
    /\ UNCHANGED <<ptype, cfgError, args, caseArg>>
    /\ UNCHANGED resolveVars
    /\ UNCHANGED mainVars

NextTuple ==
    \/ TupleTypeInit
    \/ MappingTypeInit
    \/ ConvertSequence
    \/ Return

SpecTuple == InitConv /\ [][NextTuple]_vars

(***************************************************************************)
(* EnumChoice.  An enumeration is the sequence of its members in           *)
(* declaration order; a member is its underlying value, an int or a str,   *)
(* with the string form str(value).                                        *)
(***************************************************************************)
Member(ty, s) == Val(ty, s, <<>>)

\* the underlying values the members of the modelled enumerations have:
\* the int 1 and the strings "1", "a", "A", "b"
EnumValues ==
    {Member("enum_int", "1")} \cup
    {Member("enum_str", s) : s \in {"1", "a", "A", "b"}}

\* the strings handed to EnumChoice.convert
EnumTokens == {"1", "a", "A", "b", "B", "x"}

RECURSIVE DistinctSeqs(_, _)
\* the sequences of up to n distinct elements of S
DistinctSeqs(S, n) ==
    IF n = 0 THEN {<<>>}
    ELSE {<<>>} \cup
         UNION {{<<x>> \o r : r \in DistinctSeqs(S \ {x}, n - 1)} : x \in S}

\* the enumerations: up to MaxMembers members, of distinct values
Enums == DistinctSeqs(EnumValues, MaxMembers)

\* str(i.value)
Label(m) == m.tok

\* str.lower
Lower(s) == CASE s = "A" -> "a" [] s = "B" -> "b" [] OTHER -> s

\* str.casefold
Casefold(s) == CASE s = "A" -> "a" [] s = "B" -> "b" [] OTHER -> s

Range(f) == {f[i] : i \in DOMAIN f}

RECURSIVE DictKeys(_)
\* the keys of a dict built from these keys in order: a repeated key keeps
\* its first position
DictKeys(keys) ==
    IF keys = <<>> THEN <<>>
    ELSE LET front == DictKeys(SubSeq(keys, 1, Len(keys) - 1))
             k == keys[Len(keys)]
         IN IF k \in Range(front) THEN front ELSE Append(front, k)

\* the value a dict built from these (key, value) pairs in order holds for k:
\* the last one stored
DictGet(keys, values, k) ==
    values[CHOOSE i \in 1..Len(keys) :
             /\ keys[i] = k
             /\ \A j \in (i + 1)..Len(keys) : keys[j] # k]

\* self._choices_aliaces = {str(i.value): i for i in enum}
ChoicesAliaces(enum) ==
    LET labels == [i \in 1..Len(enum) |-> Label(enum[i])]
    IN [k \in Range(labels) |-> DictGet(labels, enum, k)]

\* choices = tuple(self._choices_aliaces.keys())
Choices(enum) == DictKeys([i \in 1..Len(enum) |-> Label(enum[i])])

\* a mutation of CaseSensitive: the caller's flag is taken as it is
CaseSensitiveAsGiven(choices, case_sensitive) == case_sensitive

\* a mutation of CaseSensitive: the derived flag is inverted
CaseSensitiveInverted(choices, case_sensitive) ==
    IF ~case_sensitive
    THEN Cardinality({Lower(c) : c \in Range(choices)}) = Len(choices)
    ELSE case_sensitive

\* if not case_sensitive:
\*     case_sensitive = len(set(map(str.lower, choices))) != len(choices)
CaseSensitive(choices, case_sensitive) ==
    IF ~case_sensitive
    THEN Cardinality({Lower(c) : c \in Range(choices)}) # Len(choices)
    ELSE case_sensitive

\* EnumChoice(enum, case_sensitive)
EnumChoice(enum, case_sensitive) ==
    [kind |-> "ENUM", subs |-> <<>>, enum |-> enum,
     aliaces |-> ChoicesAliaces(enum), choices |-> Choices(enum),
     case_sensitive |-> CaseSensitive(Choices(enum), case_sensitive)]

\* a mutation of ChoiceNorm: labels are always compared exactly
ChoiceNormExact(t, s) == s

\* a mutation of ChoiceNorm: labels are always compared ignoring case
ChoiceNormFolded(t, s) == Casefold(s)

\* click.Choice.convert normalises the value and the choices alike: as they
\* are when case-sensitive, case-folded otherwise
ChoiceNorm(t, s) == IF t.case_sensitive THEN s ELSE Casefold(s)

\* click.Choice.convert: the choice whose normalised form is the normalised
\* value (the last one, normed_choices being a dict), or self.fail(...)
ChoiceConvert(t, v) ==
    LET normed == [i \in 1..Len(t.choices) |-> ChoiceNorm(t, t.choices[i])]
    IN IF ChoiceNorm(t, v.tok) \in Range(normed)
       THEN Ok(Tok(DictGet(normed, t.choices, ChoiceNorm(t, v.tok))))
       ELSE RaiseListing("BadParameter", "ENUM", v, t.choices)

\* isinstance(value, self._enum)
IsMember(t, v) == v \in Range(t.enum)

\* a mutation of EnumConvert: a member is looked up by its string form too
EnumConvertNoMemberCheck(t, v) ==
    LET r == ChoiceConvert(t, v)
    IN IF r.ok THEN Ok(t.aliaces[r.val.tok]) ELSE r

\* EnumChoice.convert
EnumConvert(t, v) ==
    IF IsMember(t, v) THEN Ok(v)
    ELSE LET r == ChoiceConvert(t, v)
         IN IF r.ok THEN Ok(t.aliaces[r.val.tok]) ELSE r

(***************************************************************************)
(* EnumChoice as a state machine: a choice is built from an enumeration,   *)
(* then converts strings and members.                                      *)
(***************************************************************************)
\* EnumChoice(enum) / EnumChoice(enum, case_sensitive=...)
EnumChoiceInit ==
    /\ Unbuilt
    /\ \E enum \in Enums, c \in BOOLEAN :
        /\ caseArg' = c
        /\ ptype' = EnumChoice(enum, c)
    /\ op' = "EnumChoice"
    /\ UNCHANGED <<cfgError, args, raw, outcome, calls>>
    /\ UNCHANGED resolveVars
    /\ UNCHANGED mainVars

\* ptype.convert(value, param=None, ctx=None), value a string or a member
DoEnumConvert ==
    /\ Built
    /\ \E v \in {Tok(s) : s \in EnumTokens} \cup Range(ptype.enum) :
        /\ raw' = v
        /\ outcome' = EnumConvert(ptype, v)
    /\ op' = "convert"
    /\ UNCHANGED <<ptype, cfgError, args, calls, caseArg>>
    /\ UNCHANGED resolveVars
    /\ UNCHANGED mainVars

NextEnum ==
    \/ EnumChoiceInit
    \/ DoEnumConvert
    \/ Return

SpecEnum == InitConv /\ [][NextEnum]_vars

(***************************************************************************)
(* Type resolution: match_click_type and match_click_type_from_field.      *)
(***************************************************************************)
FLOAT == PT("FLOAT", <<>>)
BOOL == PT("BOOL", <<>>)
\* click.types.convert_type(bytes): a FuncParamType
FUNC_BYTES == PT("FUNC", <<>>)
UNPROCESSED == PT("UNPROCESSED", <<>>)

\* click.Path(exists=True, file_okay=..., dir_okay=..., path_type=Path)
Path(file_okay, dir_okay) ==
    [kind |-> "PATH", subs |-> <<>>, exists |-> TRUE, file_okay |-> file_okay,
     dir_okay |-> dir_okay]

SCALAR_TYPES == {Py("int"), Py("float"), Py("bool"), Py("str"), Py("bytes")}

\* pydantic.typing.NONE_TYPES
NONE_TYPES == {Py("None"), Py("NoneType"), Py("Literal[None]")}

\* the keys of CLICK_TYPE_ALIACES
AliasKeys == {Py("FilePath"), Py("DirectoryPath")}

CLICK_TYPE_ALIACES(type_) ==
    IF type_ = Py("FilePath") THEN Path(FALSE, TRUE) ELSE Path(TRUE, FALSE)

\* the enumeration classes, by name, with their members
EnumClasses == {"StrEnum", "CaseSensitiveEnum"}
EnumMembers(name) ==
    IF name = "StrEnum"
    THEN <<Member("enum_str", "a"), Member("enum_str", "b")>>
    ELSE <<Member("enum_str", "a"), Member("enum_str", "A")>>

\* click.types.convert_type(type_) of a scalar type
ConvertType(type_) ==
    CASE type_ = Py("int") -> INT
      [] type_ = Py("float") -> FLOAT
      [] type_ = Py("bool") -> BOOL
      [] type_ = Py("str") -> STR
      [] OTHER -> FUNC_BYTES

\* type_ in extra_types / extra_types[type_]
InDict(d, k) == \E p \in d : p[1] = k
DictValue(d, k) == (CHOOSE p \in d : p[1] = k)[2]

\* isclass(type_) and issubclass(type_, Enum)
IsEnumClass(type_) == type_.ck = "py" /\ type_.name \in EnumClasses

\* a mutation of MatchOne: the scalar and none rules come before extra_types
MatchOneBuiltinsFirst(type_, kw) ==
    IF type_ \in NONE_TYPES THEN NONE
    ELSE IF type_ \in SCALAR_TYPES THEN ConvertType(type_)
    ELSE IF InDict(kw.extra_types, type_)
    THEN DictValue(kw.extra_types, type_)
    ELSE IF type_.ck = "param" THEN type_.pt
    ELSE IF IsEnumClass(type_)
    THEN EnumChoice(EnumMembers(type_.name), kw.case_sensitive_enums)
    ELSE IF type_ \in AliasKeys THEN CLICK_TYPE_ALIACES(type_)
    ELSE UNPROCESSED

\* a mutation of MatchOne: extra_types is not consulted for a Parameter Type
MatchOneParamFirst(type_, kw) ==
    IF type_.ck = "param" THEN type_.pt
    ELSE IF InDict(kw.extra_types, type_)
    THEN DictValue(kw.extra_types, type_)
    ELSE IF type_ \in NONE_TYPES THEN NONE
    ELSE IF type_ \in SCALAR_TYPES THEN ConvertType(type_)
    ELSE IF IsEnumClass(type_)
    THEN EnumChoice(EnumMembers(type_.name), kw.case_sensitive_enums)
    ELSE IF type_ \in AliasKeys THEN CLICK_TYPE_ALIACES(type_)
    ELSE UNPROCESSED

\* match_click_type on one candidate type: type_ = types[0] and the rules
MatchOne(type_, kw) ==
    IF InDict(kw.extra_types, type_) THEN DictValue(kw.extra_types, type_)
    ELSE IF type_ \in NONE_TYPES THEN NONE
    ELSE IF type_ \in SCALAR_TYPES THEN ConvertType(type_)
    ELSE IF type_.ck = "param" THEN type_.pt
    ELSE IF IsEnumClass(type_)
    THEN EnumChoice(EnumMembers(type_.name), kw.case_sensitive_enums)
    ELSE IF type_ \in AliasKeys THEN CLICK_TYPE_ALIACES(type_)
    ELSE UNPROCESSED

\* what a resolution returns: a type, or the exception a constructor raised
Resolved(t) == [err |-> "", t |-> t]
Failed(err) == [err |-> err, t |-> NoType]

\* build_click_composite_type(UnionType, types, **kwargs)
BuildUnion(candidates, kw) ==
    LET subtypes == [i \in 1..Len(candidates) |-> MatchOne(candidates[i], kw)]
    IN IF UnionInitError(subtypes) = "" THEN Resolved(UnionOf(subtypes))
       ELSE Failed(UnionInitError(subtypes))

\* match_click_type(types, **kwargs)
MatchClickType(candidates, kw) ==
    IF Len(candidates) > 1 THEN BuildUnion(candidates, kw)
    ELSE Resolved(MatchOne(candidates[1], kw))

MAPPING_LIKE_SHAPES == {"DEFAULTDICT", "DICT", "MAPPING"}

\* a mutation of SubKwargs: the recursive calls fall back to the defaults
SubKwargsDefaults(kw) == NoKwargs

\* the kwargs dict match_click_type_from_field builds from its own arguments
\* and hands to every call it makes
SubKwargs(kw) == Kwargs(kw.extra_types, kw.case_sensitive_enums)

\* a mutation of WrapTuple: the sub-types are wrapped last to first
WrapTupleReversed(subtypes) ==
    TupleType([i \in 1..Len(subtypes) |-> subtypes[Len(subtypes) + 1 - i]])

\* return TupleType(types)
WrapTuple(subtypes) == TupleType(subtypes)

\* match_click_type_from_field without its rules for a field without
\* sub-fields (lines 42-48)
FromFieldNoLeafRule(f, kw) == MatchClickType(<<f.type_>>, kw)

RECURSIVE MatchClickTypeFromField(_, _)

\* build_mapping_type(field, **kwargs)
BuildMappingType(f, kw) ==
    LET key_type == MatchClickTypeFromField(f.key_field[1], SubKwargs(kw))
        value_type == MatchClickType(<<f.type_>>, SubKwargs(kw))
    IN IF key_type.err # "" THEN key_type
       ELSE IF value_type.err # "" THEN value_type
       ELSE Resolved(MappingType(key_type.t, value_type.t))

\* match_click_type_from_field(field, extra_types=..., case_sensitive_enums=...)
MatchClickTypeFromField(f, kw) ==
    IF f.sub_fields = <<>>
    THEN IF f.shape = "TUPLE" THEN Resolved(NONE)
         ELSE IF f.type_ = Py("None") THEN Resolved(NONE)
         ELSE MatchClickType(<<f.type_>>, SubKwargs(kw))
    ELSE IF f.shape \in MAPPING_LIKE_SHAPES THEN BuildMappingType(f, kw)
    ELSE LET subs == [i \in 1..Len(f.sub_fields) |->
                        MatchClickTypeFromField(f.sub_fields[i], SubKwargs(kw))]
             bad == {i \in 1..Len(subs) : subs[i].err # ""}
             found == [i \in 1..Len(subs) |-> subs[i].t]
         IN IF bad # {}
            THEN subs[CHOOSE i \in bad : \A j \in bad : i <= j]
            ELSE IF f.shape = "TUPLE" THEN Resolved(WrapTuple(found))
            ELSE MatchClickType([i \in 1..Len(found) |-> Param(found[i])],
                                SubKwargs(kw))

(***************************************************************************)
(* The fields and settings resolution is run on.                           *)
(***************************************************************************)
\* the declared types of the fields without sub-fields
FieldTypes ==
    {Py("int"), Py("str"), Py("None"), Py("StrEnum"), Py("Any")}

\* a field without sub-fields: a declared type, or the empty tuple
LeafFields ==
    {Field("SINGLETON", c, <<>>, <<>>) : c \in FieldTypes}
    \cup {Field("TUPLE", Py("Tuple[()]"), <<>>, <<>>)}

RECURSIVE FieldsOfSize(_)
RECURSIVE FieldSeqsOfSize(_)
\* the sequences of fields whose sizes add up to m
FieldSeqsOfSize(m) ==
    IF m = 0 THEN {<<>>}
    ELSE UNION {{<<f>> \o s : f \in FieldsOfSize(k),
                              s \in FieldSeqsOfSize(m - k)} : k \in 1..m}

\* the fields of exactly n nodes: a Union (shape SINGLETON), a List or a
\* Tuple of sub-fields, or a Dict with its key field and one sub-field for
\* its value type
FieldsOfSize(n) ==
    IF n = 1 THEN LeafFields
    ELSE {Field(shape, Py("typing"), s, <<>>) :
            shape \in {"SINGLETON", "LIST", "TUPLE"},
            s \in FieldSeqsOfSize(n - 1)}
         \cup (IF n < 3 THEN {}
               ELSE {Field("DICT", c, <<Field("SINGLETON", c, <<>>, <<>>)>>,
                           <<k>>) :
                       c \in FieldTypes, k \in FieldsOfSize(n - 2)})

Fields == UNION {FieldsOfSize(n) : n \in 1..MaxFieldSize}

\* the candidate types match_click_type is called with
Candidates ==
    SCALAR_TYPES \cup NONE_TYPES \cup AliasKeys
    \cup {Py(name) : name \in EnumClasses} \cup {Py("Any")}
    \cup {Param(INT), Param(NONE)}

\* extra_types: empty, or one candidate type overridden
ExtraTypes == {{}} \cup {{<<k, STR>>} : k \in Candidates}

KwargsSet == {Kwargs(x, c) : x \in ExtraTypes, c \in BOOLEAN}

\* match_click_type([type_], extra_types=..., case_sensitive_enums=...)
MatchClickTypeCall ==
    /\ Unbuilt
    /\ \E c \in Candidates, kw \in KwargsSet :
        /\ types' = <<c>>
        /\ kwargs' = kw
        /\ ptype' = MatchClickType(<<c>>, kw).t
        /\ cfgError' = MatchClickType(<<c>>, kw).err
    /\ op' = "match_click_type"
    /\ UNCHANGED <<args, raw, outcome, calls, caseArg, field>>
    /\ UNCHANGED mainVars

\* match_click_type_from_field(field, extra_types=..., case_sensitive_enums=...)
ResolveField ==
    /\ Unbuilt
    /\ \E f \in Fields, kw \in KwargsSet :
        /\ field' = f
        /\ kwargs' = kw
        /\ ptype' = MatchClickTypeFromField(f, kw).t
        /\ cfgError' = MatchClickTypeFromField(f, kw).err
    /\ op' = "match_click_type_from_field"
    /\ UNCHANGED <<args, raw, outcome, calls, caseArg, types>>
    /\ UNCHANGED mainVars

NextResolve ==
    \/ MatchClickTypeCall
    \/ ResolveField

SpecResolve == InitConv /\ [][NextResolve]_vars

(***************************************************************************)
(* convert_default (main.py).                                              *)
(***************************************************************************)
\* the largest default handed to convert_default, counted in values (the
\* value and all the elements nested in it)
MaxDefaultSize == 3

\* isinstance(value, Enum)
IsEnumMember(v) == v.vk \in {"enum_str", "enum_int"}

\* value.value: the underlying value of a member
MemberValue(m) == IF m.vk = "enum_int" THEN IntV(m.tok) ELSE Tok(m.tok)

\* isinstance(value, SCALAR_TYPES): int, float, bool, str, bytes
IsScalar(v) == v.vk \in {"int", "float", "bool", "str", "bytes"}

\* isinstance(value, Sequence), for the values that are neither members nor
\* scalars: lists and tuples are sequences, sets, dicts and None are not
IsSequence(v) == v.vk \in {"list", "tuple"}

RECURSIVE ConvertDefault(_)

\* a mutation of ConvertDefault: the elements of a sequence are kept as they
\* are
ConvertDefaultShallow(value) ==
    IF IsEnumMember(value) THEN MemberValue(value)
    ELSE IF IsScalar(value) THEN value
    ELSE IF IsSequence(value) THEN ListV(value.items)
    ELSE value

\* a mutation of ConvertDefault: the scalar test comes first, and the members
\* of StrEnum(str, Enum) and IntEnum(int, Enum) are instances of str and int
ConvertDefaultScalarFirst(value) ==
    IF IsScalar(value) \/ IsEnumMember(value) THEN value
    ELSE IF IsEnumMember(value) THEN MemberValue(value)
    ELSE IF IsSequence(value)
    THEN ListV([i \in 1..Len(value.items) |-> ConvertDefault(value.items[i])])
    ELSE value

\* convert_default(value)
ConvertDefault(value) ==
    IF IsEnumMember(value) THEN MemberValue(value)
    ELSE IF IsScalar(value) THEN value
    ELSE IF IsSequence(value)
    THEN ListV([i \in 1..Len(value.items) |-> ConvertDefault(value.items[i])])
    ELSE value

\* the defaults that are no containers: None, scalars, members of the
\* enumerations (tests/models.py StrEnum, IntEnum), and an empty set
AtomDefaults ==
    {NoneV, BoolV("False"), IntV("0"), Tok("a"), Val("bytes", "a", <<>>),
     Member("enum_str", "a"), Member("enum_int", "1"), Val("set", "", <<>>)}

RECURSIVE DefaultsOfSize(_)
RECURSIVE DefaultSeqsOfSize(_)
\* the sequences of defaults whose sizes add up to m
DefaultSeqsOfSize(m) ==
    IF m = 0 THEN {<<>>}
    ELSE UNION {{<<d>> \o s : d \in DefaultsOfSize(k),
                              s \in DefaultSeqsOfSize(m - k)} : k \in 1..m}

\* the defaults of exactly n values: lists, tuples and sets of defaults
DefaultsOfSize(n) ==
    IF n = 1 THEN AtomDefaults \cup {ListV(<<>>), Tup(<<>>)}
    ELSE {Val(vk, "", s) : vk \in {"list", "tuple", "set"},
                           s \in DefaultSeqsOfSize(n - 1)}

Defaults == UNION {DefaultsOfSize(n) : n \in 1..MaxDefaultSize}

\* convert_default(value)
ConvertDefaultCall ==
    /\ Unbuilt
    /\ \E d \in Defaults :
        /\ default' = d
        /\ normalized' = ConvertDefault(d)
    /\ op' = "convert_default"
    /\ UNCHANGED <<ptype, cfgError, args, raw, outcome, calls, caseArg>>
    /\ UNCHANGED resolveVars
    /\ UNCHANGED <<mfield, config, option_kwargs, option, callback>>
    /\ UNCHANGED decoratorVars

(***************************************************************************)
(* option_from_model_field and what it calls (main.py).                    *)
(***************************************************************************)
\* model.__fields__[field_name]: a model is the sequence of its fields, in
\* declaration order
FieldsGet(model_, field_name) ==
    model_[CHOOSE i \in 1..Len(model_) : model_[i].name = field_name]

\* model.__fields__.keys()
FieldsKeys(model_) == [i \in 1..Len(model_) |-> model_[i].name]

MULTIPLE_VALUES_SHAPES ==
    {"LIST", "SET", "TUPLE_ELLIPSIS", "SEQUENCE", "FROZENSET", "ITERABLE",
     "DEQUE"} \cup MAPPING_LIKE_SHAPES

PyBool(b) == BoolV(IF b THEN "True" ELSE "False")

\* a mutation of SetDefault: the derived value replaces the caller's
SetDefaultOverwrites(d, k, v) == (k :> v) @@ d

\* option_kwargs.setdefault(k, v)
SetDefault(d, k, v) == IF k \in DOMAIN d THEN d ELSE d @@ (k :> v)

\* get_envvar(field, apply_env_vars)
GetEnvvar(f, apply_env_vars) ==
    IF apply_env_vars /\ f.env_names # <<>> THEN Some(f.env_names[1])
    ELSE NoName

\* field_name.replace("_", "-").lower(), for the field names of the model
Dashed(field_name) ==
    CASE field_name = "bool_val" -> "bool-val"
      [] field_name = "int_val" -> "int-val"
      [] field_name = "float_val" -> "float-val"
      [] field_name = "list_val" -> "list-val"
      [] OTHER -> field_name

\* make_option_key(field_name, click_type, bool_as_flag)
MakeOptionKey(field_name, click_type, bool_as_flag) ==
    LET key == Dashed(field_name)
    IN IF click_type.kind = "BOOL" /\ bool_as_flag
       THEN "--" \o key \o "/--no-" \o key
       ELSE "--" \o key

\* create_field_validator(field, model, apply_model_validators=...)
CreateFieldValidator(f, model_, apply_model_validators) ==
    FieldValidator(f, model_, apply_model_validators)

\* a mutation of HasDefault: a falsy default counts as no default
HasDefaultTruthy(default_) ==
    default_ \notin {NoneV, BoolV("False"), IntV("0"), ListV(<<>>), Tok("")}

\* default is not None
HasDefault(default_) == default_ # NoneV

\* one derived setting: option_kwargs.setdefault(k, v), run if its test holds
Derived(test, k, v) == [test |-> test, k |-> k, v |-> v]

RECURSIVE SetDefaults(_, _)
\* the setdefault statements of option_from_model_field, run in order
SetDefaults(d, steps) ==
    IF steps = <<>> THEN d
    ELSE SetDefaults(IF Head(steps).test
                     THEN SetDefault(d, Head(steps).k, Head(steps).v)
                     ELSE d,
                     Tail(steps))

\* the derived settings of a field whose type resolved to click_type, in the
\* order of the statements
DerivedSettings(f, model_, cfg, click_type) ==
    LET default_ == ConvertDefault(f.default)
        envvar == GetEnvvar(f, cfg.apply_env_vars)
    IN <<Derived(click_type.kind = "NONE", "is_flag", PyBool(TRUE)),
         Derived(f.field.shape \in MULTIPLE_VALUES_SHAPES, "multiple",
                 PyBool(TRUE)),
         Derived(HasDefault(default_), "default", default_),
         Derived(HasDefault(default_), "show_default", PyBool(TRUE)),
         Derived(TRUE, "required", PyBool(f.required)),
         Derived(TRUE, "type", click_type),
         Derived(f.description # "", "help", Tok(f.description)),
         Derived(envvar.given, "envvar", Tok(envvar.v)),
         Derived(TRUE, "callback",
                 CreateFieldValidator(f, model_,
                                      cfg.apply_model_validators))>>

\* option_from_model_field(field_name, model, **cfg, **option_kwargs):
\* the option, or the configuration error of type resolution
OptionFromModelField(field_name, model_, cfg, settings) ==
    LET f == FieldsGet(model_, field_name)
        click_type ==
            MatchClickTypeFromField(
                f.field, Kwargs(cfg.extra_types, cfg.case_sensitive_enums))
    IN IF click_type.err # ""
       THEN [err |-> click_type.err, option |-> NoOption]
       ELSE [err |-> "",
             option |->
                 Option(MakeOptionKey(field_name, click_type.t,
                                      cfg.bool_as_flag),
                        field_name,
                        SetDefaults(settings,
                                    DerivedSettings(f, model_, cfg,
                                                    click_type.t)))]

(***************************************************************************)
(* The fields, settings and pass-through option settings that              *)
(* option_from_model_field is run on.                                      *)
(***************************************************************************)
\* what type resolution reads of the model fields: bool, int, None, the
\* empty tuple, an enumeration, List[int], Dict[str, int], and a Union that
\* UnionType rejects (int and the empty tuple)
OptionFields ==
    {Field("SINGLETON", c, <<>>, <<>>) :
        c \in {Py("bool"), Py("int"), Py("None"), Py("StrEnum")}}
    \cup {Field("TUPLE", Py("Tuple[()]"), <<>>, <<>>),
          Field("LIST", Py("int"),
                <<Field("SINGLETON", Py("int"), <<>>, <<>>)>>, <<>>),
          Field("DICT", Py("int"),
                <<Field("SINGLETON", Py("int"), <<>>, <<>>)>>,
                <<Field("SINGLETON", Py("str"), <<>>, <<>>)>>),
          Field("SINGLETON", Py("typing"),
                <<Field("SINGLETON", Py("int"), <<>>, <<>>),
                  Field("TUPLE", Py("Tuple[()]"), <<>>, <<>>)>>, <<>>)}

\* the defaults of the model fields: none, falsy ones, a member, a list
FieldDefaults ==
    {NoneV, BoolV("False"), IntV("0"), ListV(<<>>), Member("enum_str", "a"),
     ListV(<<IntV("0"), Member("enum_str", "a")>>)}

\* the model fields: a field with a default is not required
ModelFields ==
    UNION {{ModelField(name, f, d, required, description, env_names) :
              name \in {"bool_val", "list_val"},
              f \in OptionFields,
              required \in (IF d = NoneV THEN BOOLEAN ELSE {FALSE}),
              description \in {"", "Field description"},
              env_names \in {<<>>, <<"ENV_A", "ENV_B">>}} :
           d \in FieldDefaults}

\* the flags and extra_types: the defaults, each flag changed, an override
Configs ==
    {DefaultConfig,
     Config(FALSE, TRUE, TRUE, FALSE, {}),
     Config(TRUE, FALSE, TRUE, FALSE, {}),
     Config(TRUE, TRUE, FALSE, FALSE, {}),
     Config(TRUE, TRUE, TRUE, TRUE, {}),
     Config(TRUE, TRUE, TRUE, FALSE, {<<Py("int"), STR>>})}

\* the settings the option layer derives, and one it does not
DerivedKeys ==
    {"is_flag", "multiple", "default", "show_default", "required", "type",
     "help", "envvar", "callback"}
CallerKeys == DerivedKeys \cup {"metavar"}

\* a value only the caller can have supplied
CallerValue(k) == Val("caller", k, <<>>)

\* **option_kwargs: nothing, one setting, every setting, or default=None
CallerKwargs ==
    {<<>>}
    \cup {(k :> CallerValue(k)) : k \in CallerKeys}
    \cup {[k \in CallerKeys |-> CallerValue(k)]}
    \cup {("default" :> NoneV)}

\* option_from_model_field(field_name, model, **cfg, **option_kwargs)
OptionFromModelFieldCall ==
    /\ Unbuilt
    /\ \E f \in ModelFields, cfg \in Configs, settings \in CallerKwargs :
        LET r == OptionFromModelField(f.name, <<f>>, cfg, settings)
        IN /\ mfield' = f
           /\ config' = cfg
           /\ option_kwargs' = settings
           /\ option' = r.option
           /\ cfgError' = r.err
    /\ op' = "option_from_model_field"
    /\ UNCHANGED <<ptype, args, raw, outcome, calls, caseArg>>
    /\ UNCHANGED resolveVars
    /\ UNCHANGED <<default, normalized, callback>>
    /\ UNCHANGED decoratorVars

NextOption ==
    \/ ConvertDefaultCall
    \/ OptionFromModelFieldCall

SpecOption == InitConv /\ [][NextOption]_vars

(***************************************************************************)
(* create_field_validator: the validation callback of an option (main.py). *)
(***************************************************************************)
\* the shapes of SHAPE_TO_TYPE_MAP
ShapesInMap ==
    {"LIST", "SET", "MAPPING", "FROZENSET", "ITERABLE", "DEQUE", "DICT"}

\* SHAPE_TO_TYPE_MAP[shape], by the type of the value it builds (iter builds
\* an iterator)
SHAPE_TO_TYPE_MAP(shape) ==
    CASE shape = "LIST" -> "list"
      [] shape = "SET" -> "set"
      [] shape = "FROZENSET" -> "frozenset"
      [] shape = "ITERABLE" -> "iterator"
      [] shape = "DEQUE" -> "deque"
      [] OTHER -> "dict"

\* the items of dict(pairs): one (key, value) pair per key, at the place of
\* the key's first pair, with the value of its last
DictItems(pairs) ==
    LET keys == [i \in 1..Len(pairs) |-> pairs[i].items[1]]
        values == [i \in 1..Len(pairs) |-> pairs[i].items[2]]
        found == DictKeys(keys)
    IN [i \in 1..Len(found) |->
          Tup(<<found[i], DictGet(keys, values, found[i])>>)]

\* list(value), set(value), dict(value), ... of a tuple
Construct(ctor, value) ==
    CASE ctor \in {"list", "iterator", "deque"} -> Val(ctor, "", value.items)
      [] ctor \in {"set", "frozenset"} -> Val(ctor, "", DictKeys(value.items))
      [] OTHER -> Val(ctor, "", DictItems(value.items))

\* a mutation of ConvertToShapeType: the value is passed through
ConvertToShapeTypeUnchanged(value, f) == value

\* convert_to_shape_type(value, field)
ConvertToShapeType(value, f) ==
    IF f.field.shape \in ShapesInMap
    THEN Construct(SHAPE_TO_TYPE_MAP(f.field.shape), value)
    ELSE IF f.field.shape = "DEFAULTDICT"
    THEN Val("defaultdict", f.field.type_.name, DictItems(value.items))
    ELSE value

\* what field.validate(value, values={}, loc=field.name, cls=model) of
\* pydantic may return: the value or a coerced one without errors, or errors
Coerced(value) == Val("coerced", "", <<value>>)
ValidateResults(value) ==
    {[value |-> v, errors |-> <<>>] : v \in {value, Coerced(value)}}
    \cup {[value |-> value, errors |-> e] :
            e \in {<<"error 1">>, <<"error 1", "error 2">>}}

\* run_model_validator(value, field, model), res being what field.validate
\* returned: ValidationError([errors]).errors()[0]["msg"] is the first message
RunModelValidator(value, f, model_, res) ==
    IF res.errors # <<>>
    THEN Raise("BadParameter", "run_model_validator", Tok(res.errors[1]))
    ELSE Ok(res.value)

\* the call of field.validate, as logged
ValidateCall(value, f, model_, res) ==
    [fn |-> "validate", arg |-> value, values |-> <<>>, loc |-> f.name,
     cls |-> model_, result |-> res]

\* a mutation of FieldValidatorResult: the raw value is validated first and
\* the validator's value reshaped
FieldValidatorValidatesFirst(cb, value, res) ==
    LET out == RunModelValidator(value, cb.field, cb.model, res)
        log == <<ValidateCall(value, cb.field, cb.model, res)>>
    IN IF ~cb.apply_model_validators
       THEN [out |-> Ok(ConvertToShapeType(value, cb.field)),
             calls |-> <<[fn |-> "convert_to_shape_type", arg |-> value,
                          out |-> ConvertToShapeType(value, cb.field)]>>]
       ELSE IF ~out.ok THEN [out |-> out, calls |-> log]
       ELSE [out |-> Ok(ConvertToShapeType(out.val, cb.field)),
             calls |-> Append(log, [fn |-> "convert_to_shape_type",
                                    arg |-> out.val,
                                    out |-> ConvertToShapeType(out.val,
                                                               cb.field)])]

\* field_validator(ctx, param, value): what it returns or raises, and the
\* calls it makes, res being what field.validate returns if it is called
FieldValidatorResult(cb, value, res) ==
    LET reshaped == ConvertToShapeType(value, cb.field)
        log == <<[fn |-> "convert_to_shape_type", arg |-> value,
                  out |-> reshaped]>>
    IN IF cb.apply_model_validators
       THEN [out |-> RunModelValidator(reshaped, cb.field, cb.model, res),
             calls |-> Append(log, ValidateCall(reshaped, cb.field, cb.model,
                                                res))]
       ELSE [out |-> Ok(reshaped), calls |-> log]

\* one field of each shape
ValidatorFields ==
    {ModelField("list_val",
                Field(shape, Py("int"),
                      <<Field("SINGLETON", Py("int"), <<>>, <<>>)>>,
                      IF shape \in MAPPING_LIKE_SHAPES
                      THEN <<Field("SINGLETON", Py("str"), <<>>, <<>>)>>
                      ELSE <<>>),
                NoneV, TRUE, "", <<>>) :
        shape \in ShapesInMap \cup
                  {"DEFAULTDICT", "TUPLE", "TUPLE_ELLIPSIS", "SEQUENCE"}}
    \cup {ModelField("int_val", Field("SINGLETON", Py("int"), <<>>, <<>>),
                     IntV("0"), FALSE, "", <<>>)}

RECURSIVE PairSeqs(_)
\* the tuples of up to n (key, value) pairs of tokens
PairSeqs(n) ==
    IF n = 0 THEN {<<>>}
    ELSE {<<>>} \cup {<<Tup(<<Tok(k), Tok(v)>>)>> \o r :
                        k \in Tokens, v \in Tokens, r \in PairSeqs(n - 1)}

\* the values click hands to the callback of a field: with multiple=True a
\* tuple of converted values, of (key, value) pairs for a mapping-like shape;
\* otherwise one value, a tuple of values, or None
CallbackValues(f) ==
    IF f.field.shape \in MAPPING_LIKE_SHAPES
    THEN {Tup(r) : r \in PairSeqs(MaxLen - 1)}
    ELSE IF f.field.shape \in MULTIPLE_VALUES_SHAPES
    THEN {Tup(r) : r \in TokenSeqs(MaxLen)}
    ELSE RawValues \cup {NoneV}

\* create_field_validator(field, model, apply_model_validators=...)
CreateFieldValidatorCall ==
    /\ Unbuilt
    /\ \E f \in ValidatorFields, apply \in BOOLEAN :
        /\ mfield' = f
        /\ callback' = CreateFieldValidator(f, <<f>>, apply)
    /\ op' = "create_field_validator"
    /\ UNCHANGED <<ptype, cfgError, args, raw, outcome, calls, caseArg>>
    /\ UNCHANGED resolveVars
    /\ UNCHANGED <<default, normalized, config, option_kwargs, option>>
    /\ UNCHANGED decoratorVars

\* callback(ctx, param, value), as click calls it after parsing
FieldValidatorCall ==
    /\ callback # NoCallback
    /\ \E value \in CallbackValues(callback.field) :
        \E res \in ValidateResults(ConvertToShapeType(value, callback.field)) :
            LET r == FieldValidatorResult(callback, value, res)
            IN /\ raw' = value
               /\ outcome' = r.out
               /\ calls' = r.calls
    /\ op' = "field_validator"
    /\ UNCHANGED <<ptype, cfgError, args, caseArg>>
    /\ UNCHANGED resolveVars
    /\ UNCHANGED optionVars
    /\ UNCHANGED decoratorVars

NextValidator ==
    \/ CreateFieldValidatorCall
    \/ FieldValidatorCall

SpecValidator == InitConv /\ [][NextValidator]_vars

(***************************************************************************)
(* calculate_fields (main.py).                                             *)
(***************************************************************************)
\* the most fields a model has
MaxFields == 2

\* the fields of tests/models.py MainTestModel, in declaration order
MainTestModel ==
    <<ModelField("bool_val", Field("SINGLETON", Py("bool"), <<>>, <<>>),
                 BoolV("True"), FALSE, "", <<>>),
      ModelField("int_val", Field("SINGLETON", Py("int"), <<>>, <<>>),
                 IntV("0"), FALSE, "", <<>>),
      ModelField("float_val", Field("SINGLETON", Py("float"), <<>>, <<>>),
                 NoneV, TRUE, "", <<>>),
      ModelField("list_val",
                 Field("LIST", Py("int"),
                       <<Field("SINGLETON", Py("int"), <<>>, <<>>)>>, <<>>),
                 NoneV, TRUE, "Field description", <<>>)>>

\* the fields the modelled models are made of: the first MaxFields of them
DeclaredFields ==
    {MainTestModel[i] :
        i \in 1..(IF MaxFields < Len(MainTestModel) THEN MaxFields
                  ELSE Len(MainTestModel))}

\* the models: up to MaxFields of these fields, in any declaration order
Models == DistinctSeqs(DeclaredFields, MaxFields)

\* the names include and exclude are made of: the field names and a name
\* that is no field of any model
SelectableNames == {f.name : f \in DeclaredFields} \cup {"other"}

\* include / exclude: None, or a set of names
Selections == {NoSet} \cup {Some(S) : S \in SUBSET SelectableNames}

\* a mutation of TableAfter: the operators work in place, on the field table
TableFilteredInPlace(model_, keys) ==
    SelectSeq(model_, LAMBDA f : f.name \in keys)

\* model.__fields__ after 'keys &= include' and 'keys -= exclude': keys is a
\* view of the dict's keys, which has no in-place operators, so each
\* statement binds a new set to keys and leaves the dict as it is
TableAfter(model_, keys) == model_

\* a mutation of SelectedKeys: exclude is applied before include, as a union
SelectedKeysIncludeWins(model_, include_, exclude_) ==
    LET keys == Range(FieldsKeys(model_))
        kept == IF exclude_.given THEN keys \ exclude_.v ELSE keys
    IN IF include_.given THEN kept \cup (keys \cap include_.v) ELSE kept

\* keys, after the two statements
SelectedKeys(model_, include_, exclude_) ==
    LET keys == Range(FieldsKeys(model_))
        included == IF include_.given THEN keys \cap include_.v ELSE keys
    IN IF exclude_.given THEN included \ exclude_.v ELSE included

\* a mutation of CalculateFields: the names come out in reverse order
CalculateFieldsReversed(model_, include_, exclude_) ==
    Reverse(SelectSeq(FieldsKeys(model_),
                      LAMBDA key : key \in SelectedKeys(model_, include_,
                                                        exclude_)))

\* calculate_fields(model, include=..., exclude=...)
CalculateFields(model_, include_, exclude_) ==
    SelectSeq(FieldsKeys(model_),
              LAMBDA key : key \in SelectedKeys(model_, include_, exclude_))

\* the model and the selection calculate_fields is called with
InitFields ==
    /\ op = "init"
    /\ ptype = NoType
    /\ cfgError = ""
    /\ args = <<>>
    /\ raw = NoneV
    /\ outcome = NoOutcome
    /\ calls = <<>>
    /\ caseArg = FALSE
    /\ field = NoField
    /\ types = <<>>
    /\ kwargs = NoKwargs
    /\ default = NoneV
    /\ normalized = NoneV
    /\ mfield = NoModelField
    /\ config = DefaultConfig
    /\ option_kwargs = <<>>
    /\ option = NoOption
    /\ callback = NoCallback
    /\ model \in Models
    /\ include \in Selections
    /\ exclude \in Selections
    /\ to_kwarg = NoName
    /\ field_names = <<>>
    /\ options = <<>>
    /\ func = <<>>
    /\ inArgs = <<>>
    /\ inKwargs = <<>>
    /\ funcCalls = <<>>
    /\ warned = <<>>
    /\ result = NoneV

\* calculate_fields(model, include=include, exclude=exclude)
CalculateFieldsCall ==
    /\ field_names' = CalculateFields(model, include, exclude)
    /\ model' = TableAfter(model, SelectedKeys(model, include, exclude))
    /\ op' = "calculate_fields"
    /\ UNCHANGED <<ptype, cfgError, args, raw, outcome, calls, caseArg>>
    /\ UNCHANGED resolveVars
    /\ UNCHANGED optionVars
    /\ UNCHANGED <<include, exclude, to_kwarg, options, func, inArgs,
                   inKwargs, funcCalls, warned, result>>

NextFields == CalculateFieldsCall

SpecFields == InitFields /\ [][NextFields]_vars

(***************************************************************************)
(* options_from_model: its decorator and the wrapper it returns (main.py). *)
(***************************************************************************)
\* a mutation of Reversed: the fields are taken in declaration order
ReversedNot(names) == names

\* reversed(field_names)
Reversed(names) == Reverse(names)

\* the call option_from_model_field(field_name, model_, **config,
\* **options_kwargs) and the option it returned
OptionCall(field_name, model_, cfg, settings) ==
    [field_name |-> field_name, model |-> model_, config |-> cfg,
     settings |-> settings,
     option |-> OptionFromModelField(field_name, model_, cfg, settings).option]

RECURSIVE AttachOptions(_, _, _, _, _, _)
\* the loop of the decorator over the names left: the options built so far,
\* and the options attached to func so far, each to the result of the
\* attach before it
AttachOptions(names, model_, cfg, settings, built, attached) ==
    IF names = <<>> THEN [options |-> built, func |-> attached]
    ELSE LET call == OptionCall(Head(names), model_, cfg, settings)
         IN AttachOptions(Tail(names), model_, cfg, settings,
                          Append(built, call), Append(attached, call.option))

\* the keyword arguments the wrapper is called with: one value per key
KwValue(k) == Val("kwarg", k, <<>>)

\* the nested mapping, as a value
MappingV(d) == [vk |-> "dict", d |-> d]

\* {key: value for key, value in kwargs.items() if key in keys}
Restrict(d, keys) == [k \in DOMAIN d \cap keys |-> d[k]]

\* wrapper(*args, **kwargs), up to the call of func: the arguments func is
\* called with, and the warnings.  field_names are the names calculate_fields
\* returned; 'if to_kwarg in kwargs' reads the keyword arguments that are
\* left once the model data is taken out
WrapperCall(names, target, args_, kwargs_) ==
    IF target.given
    THEN LET model_data == Restrict(kwargs_, Range(names))
             remaining == Restrict(kwargs_, DOMAIN kwargs_ \ DOMAIN model_data)
         IN [args |-> args_,
             kwargs |-> (target.v :> MappingV(model_data)) @@ remaining,
             warned |-> IF target.v \in DOMAIN remaining
                        THEN <<target.v \o " already in kwargs">>
                        ELSE <<>>]
    ELSE [args |-> args_, kwargs |-> kwargs_, warned |-> <<>>]

\* what the wrapped function returns
FuncReturnValue == Val("sentinel", "func_return_value", <<>>)

\* include / exclude of the decorated models: None, or up to one name
DecoratorSelections ==
    {s \in Selections : s.given => Cardinality(s.v) <= 1}

\* to_kwarg: None, a name that is no field, or the name of a field
Targets == {NoName, Some("kwarg_name"), Some("bool_val")}

\* the flags and pass-through settings of the decorated models
DecoratorConfigs ==
    {<<DefaultConfig, <<>>>>,
     <<Config(FALSE, FALSE, FALSE, TRUE, {<<Py("int"), STR>>}),
       ("help" :> CallerValue("help"))>>}

\* the keys of the keyword arguments the wrapper is called with
WrapperKeys == SelectableNames \cup {"kwarg_name"}

\* options_from_model(model, include=..., exclude=..., to_kwarg=...,
\* **flags, **options_kwargs): model_ is the model class
OptionsFromModel ==
    /\ Unbuilt
    /\ \E m \in Models, i \in DecoratorSelections, e \in DecoratorSelections,
          t \in Targets, c \in DecoratorConfigs :
        /\ model' = m
        /\ include' = i
        /\ exclude' = e
        /\ to_kwarg' = t
        /\ config' = c[1]
        /\ option_kwargs' = c[2]
    /\ op' = "options_from_model"
    /\ UNCHANGED <<ptype, cfgError, args, raw, outcome, calls, caseArg>>
    /\ UNCHANGED resolveVars
    /\ UNCHANGED <<default, normalized, mfield, option, callback>>
    /\ UNCHANGED <<field_names, options, func, inArgs, inKwargs, funcCalls,
                   warned, result>>

\* decorator(func)
Decorator ==
    /\ op = "options_from_model"
    /\ LET names == CalculateFields(model, include, exclude)
           table == TableAfter(model, SelectedKeys(model, include, exclude))
           r == AttachOptions(Reversed(names), table, config, option_kwargs,
                              <<>>, <<>>)
       IN /\ field_names' = names
          /\ model' = table
          /\ options' = r.options
          /\ func' = r.func
    /\ op' = "decorator"
    /\ UNCHANGED <<ptype, cfgError, args, raw, outcome, calls, caseArg>>
    /\ UNCHANGED resolveVars
    /\ UNCHANGED optionVars
    /\ UNCHANGED <<include, exclude, to_kwarg, inArgs, inKwargs, funcCalls,
                   warned, result>>

\* wrapper(*args, **kwargs): func is called once and its value returned
Wrapper ==
    /\ op \in {"decorator", "returned"}
    /\ \E args_ \in {<<>>, <<Val("sentinel", "arg1", <<>>)>>},
          keys \in SUBSET WrapperKeys :
        LET kwargs_ == [k \in keys |-> KwValue(k)]
            call == WrapperCall(field_names, to_kwarg, args_, kwargs_)
        IN /\ inArgs' = args_
           /\ inKwargs' = kwargs_
           /\ funcCalls' = <<[args |-> call.args, kwargs |-> call.kwargs,
                              returned |-> FuncReturnValue]>>
           /\ warned' = call.warned
           /\ result' = FuncReturnValue
    /\ op' = "wrapper"
    /\ UNCHANGED <<ptype, cfgError, args, raw, outcome, calls, caseArg>>
    /\ UNCHANGED resolveVars
    /\ UNCHANGED optionVars
    /\ UNCHANGED <<model, include, exclude, to_kwarg, field_names, options,
                   func>>

\* the wrapper has returned; the decorated function can be called again
WrapperReturn ==
    /\ op = "wrapper"
    /\ op' = "returned"
    /\ inArgs' = <<>>
    /\ inKwargs' = <<>>
    /\ funcCalls' = <<>>
    /\ warned' = <<>>
    /\ result' = NoneV
    /\ UNCHANGED <<ptype, cfgError, args, raw, outcome, calls, caseArg>>
    /\ UNCHANGED resolveVars
    /\ UNCHANGED optionVars
    /\ UNCHANGED <<model, include, exclude, to_kwarg, field_names, options,
                   func>>

NextDecorator ==
    \/ OptionsFromModel
    \/ Decorator
    \/ Wrapper
    \/ WrapperReturn

SpecDecorator == InitConv /\ [][NextDecorator]_vars

(***************************************************************************)
(* Claims about conversion and construction, checked under SpecConv.       *)
(***************************************************************************)
RECURSIVE Subterms(_)
\* a type and all the subtypes nested in it
Subterms(t) == {t} \cup UNION {Subterms(t.subs[i]) : i \in 1..Len(t.subs)}

\* the number of tokens the subtypes before the i-th consume
Offset(subs, i) == SumArity(SubSeq(subs, 1, i - 1))

\* the tokens at positions [o_i, o_i + arity_i), as the i-th subtype gets them
Window(tokens, subs, i) ==
    LET w == SubSeq(tokens, Offset(subs, i) + 1,
                    Offset(subs, i) + Arity(subs[i]))
    IN IF Arity(subs[i]) = 1 THEN w[1] ELSE Tup(w)

\* the tokens of the values handed to the subtypes, in call order
RECURSIVE TokensOf(_)
TokensOf(log) ==
    IF log = <<>> THEN <<>>
    ELSE (IF Head(log).arg.vk = "tuple" THEN Head(log).arg.items
          ELSE <<Head(log).arg>>) \o TokensOf(Tail(log))

FlatCase ==
    /\ op = "convert"
    /\ IsTupleKind(ptype)
    /\ raw.vk = "tuple"
    /\ Len(raw.items) = Arity(ptype)

\* C1: TupleType.convert and MappingType.convert on a flat token sequence
\* whose length is the type's arity call the subtypes left to right, the i-th
\* with exactly the tokens at [o_i, o_i + arity_i) (one token when its arity
\* is 1, a tuple of arity_i tokens otherwise); the result is the tuple of the
\* subtypes' converted values in subtype order, and every token has been
\* handed to exactly one subtype.
C1_TupleConsumesLeftToRight ==
    FlatCase =>
        /\ Len(calls) <= Len(ptype.subs)
        /\ \A i \in 1..Len(calls) :
            /\ calls[i].arg = Window(raw.items, ptype.subs, i)
            /\ calls[i].out = Convert(ptype.subs[i], calls[i].arg)
            /\ i < Len(calls) => calls[i].out.ok
        /\ outcome.ok =>
            /\ Len(calls) = Len(ptype.subs)
            /\ outcome.val.vk = "tuple"
            /\ Len(outcome.val.items) = Len(ptype.subs)
            /\ \A i \in 1..Len(calls) : outcome.val.items[i] = calls[i].out.val
            /\ TokensOf(calls) = raw.items
        /\ ~outcome.ok =>
            /\ calls # <<>>
            /\ outcome = calls[Len(calls)].out

\* C1 happens: an int followed by a pair of strings converts ("1", "a", "1")
C1_Witness ==
    /\ FlatCase
    /\ ptype = TupleType(<<INT, TupleType(<<STR, STR>>)>>)
    /\ raw = Tup(<<Tok("1"), Tok("a"), Tok("1")>>)
    /\ outcome = Ok(Tup(<<IntV("1"), Tup(<<Tok("a"), Tok("1")>>)>>))

UnionCase == op = "convert" /\ ptype.kind = "UNION"

\* C2: UnionType.convert calls its subtypes with the same input in
\* declaration order; a subtype is called only after every earlier one has
\* failed, none is called after one that converts, and what is returned is
\* the result of the first subtype that converts.
C2_UnionFirstSuccessWins ==
    UnionCase =>
        /\ calls # <<>>
        /\ Len(calls) <= Len(ptype.subs)
        /\ \A i \in 1..Len(calls) :
            /\ calls[i].arg = raw
            /\ calls[i].out = Convert(ptype.subs[i], raw)
            /\ i < Len(calls) => ~calls[i].out.ok
        /\ calls[Len(calls)].out.ok => outcome = calls[Len(calls)].out
        /\ outcome.ok => outcome = calls[Len(calls)].out

\* C2 happens: (int, str) gives the int for "1" without trying str, and the
\* string for "a" once int has failed
C2_Witness ==
    /\ UnionCase
    /\ ptype = UnionOf(<<INT, STR>>)
    /\ raw = Tok("a")
    /\ Len(calls) = 2
    /\ ~calls[1].out.ok
    /\ outcome = Ok(Tok("a"))

\* C3: UnionType.convert fails only if every subtype fails on the input,
\* whatever the kind of failure, and then reports the failure of the last
\* subtype in declaration order.
C3_UnionFailsOnlyIfAllFail ==
    (UnionCase /\ ~outcome.ok) =>
        /\ \A i \in 1..Len(ptype.subs) : ~Convert(ptype.subs[i], raw).ok
        /\ Len(calls) = Len(ptype.subs)
        /\ outcome = calls[Len(ptype.subs)].out

BadUnionArgs(subs) ==
    \/ Len(subs) < 2
    \/ \E i, j \in 1..Len(subs) : Arity(subs[i]) # Arity(subs[j])

\* C4: UnionType(subtypes) with fewer than two subtypes, or with subtypes of
\* different arity, raises at construction and yields no type; so every
\* UnionType there is, nested ones included, has at least two subtypes, all of
\* the union's own arity.
C4_UnionValidatedAtConstruction ==
    /\ (op = "UnionType" /\ BadUnionArgs(args)) =>
        /\ cfgError \in {"ValueError", "TypeError"}
        /\ ptype = NoType
        /\ raw = NoneV
    /\ (op = "UnionType" /\ ~BadUnionArgs(args)) =>
        /\ cfgError = ""
        /\ ptype = UnionOf(args)
    /\ \A u \in Subterms(ptype) :
        u.kind = "UNION" =>
            /\ Len(u.subs) >= 2
            /\ \A i \in 1..Len(u.subs) : Arity(u.subs[i]) = Arity(u)

\* C4 happens: a union of an int and a pair of ints is rejected
C4_Witness ==
    /\ op = "UnionType"
    /\ args = <<INT, TupleType(<<INT, INT>>)>>
    /\ cfgError = "TypeError"
    /\ ptype = NoType

\* C6: every convert of a tuple, mapping or union type, on a raw value of any
\* length, returns a value or fails with click.BadParameter.
C6_OnlyParameterErrors ==
    (op = "convert" /\ ptype.kind \in {"TUPLE", "MAPPING", "UNION"}) =>
        (outcome.ok \/ outcome.exc = "BadParameter")

\* the choices whose label is the input, compared exactly when the choice is
\* case-sensitive and ignoring case otherwise
Matching(t, s) ==
    {i \in 1..Len(t.choices) :
        IF t.case_sensitive THEN t.choices[i] = s
        ELSE Lower(t.choices[i]) = Lower(s)}

\* the labels str(value) of the members, each once, in declaration order
LabelsInOrder(t, listed) ==
    /\ Range(listed) = {Label(t.enum[i]) : i \in 1..Len(t.enum)}
    /\ \A i, j \in 1..Len(listed) :
        i < j =>
            /\ listed[i] # listed[j]
            /\ \E a \in 1..Len(t.enum) :
                /\ Label(t.enum[a]) = listed[i]
                /\ \A b \in 1..a : Label(t.enum[b]) # listed[j]

Colliding(choices) ==
    \E i, j \in 1..Len(choices) :
        i # j /\ Lower(choices[i]) = Lower(choices[j])

\* C7: an EnumChoice is case-sensitive if the caller passed
\* case_sensitive=True; otherwise it is case-sensitive exactly when two of
\* its labels collide once lowercased, and case-insensitive when none do.
C7_EnumCaseSensitivity ==
    op = "EnumChoice" =>
        /\ caseArg => ptype.case_sensitive
        /\ ~caseArg => (ptype.case_sensitive <=> Colliding(ptype.choices))
        /\ Colliding(ptype.choices) <=>
            Cardinality({Lower(c) : c \in Range(ptype.choices)})
                < Len(ptype.choices)

\* C7 happens: labels "a" and "A", asked to be case-insensitive, are
\* case-sensitive
C7_Witness ==
    /\ op = "EnumChoice"
    /\ ~caseArg
    /\ ptype.choices = <<"a", "A">>
    /\ ptype.case_sensitive

EnumCase == op = "convert" /\ ptype.kind = "ENUM"

\* C8: EnumChoice.convert returns a member of the enum unchanged; any other
\* input is matched as a label (exactly when case-sensitive, ignoring case
\* otherwise) and the member of the matched label is returned; an input that
\* matches no label fails with a parameter error naming the value and all the
\* labels in declaration order, and returns no member.
C8_EnumConvert ==
    EnumCase =>
        /\ IsMember(ptype, raw) => outcome = Ok(raw)
        /\ (~IsMember(ptype, raw) /\ Matching(ptype, raw.tok) # {}) =>
            /\ outcome.ok
            /\ IsMember(ptype, outcome.val)
            /\ \E i \in Matching(ptype, raw.tok) :
                Label(outcome.val) = ptype.choices[i]
        /\ (~IsMember(ptype, raw) /\ Matching(ptype, raw.tok) = {}) =>
            /\ ~outcome.ok
            /\ outcome.exc = "BadParameter"
            /\ outcome.about = raw
            /\ outcome.val = NoneV
            /\ LabelsInOrder(ptype, outcome.listed)

\* C8 happens: a case-insensitive choice maps "B" to the member "b", and
\* rejects "x" listing its labels
C8_Witness ==
    /\ EnumCase
    /\ ~ptype.case_sensitive
    /\ ptype.choices = <<"a", "b">>
    /\ raw = Tok("B")
    /\ outcome = Ok(Member("enum_str", "b"))

(***************************************************************************)
(* Claims about type resolution, checked under SpecResolve.                *)
(***************************************************************************)
ResolvedType ==
    /\ op \in {"match_click_type", "match_click_type_from_field"}
    /\ cfgError = ""

\* C5: in every Parameter Type that type resolution produces, and in every
\* subtype nested in it, arity is a non-negative integer fixed by the
\* structure: 0 for the None-type, 1 for scalar, enum and unprocessed types,
\* the sum of the subtypes' arities for a Tuple, key arity plus value arity
\* for a Mapping, and for a Union the arity that all its subtypes share.
C5_ArityIsStructural ==
    ResolvedType =>
        \A u \in Subterms(ptype) :
            /\ Arity(u) \in Nat
            /\ u.kind = "NONE" => Arity(u) = 0
            /\ u.kind \in {"INT", "FLOAT", "BOOL", "STRING", "FUNC", "ENUM",
                           "UNPROCESSED"} => Arity(u) = 1
            /\ u.kind = "TUPLE" => Arity(u) = Offset(u.subs, Len(u.subs) + 1)
            /\ u.kind = "MAPPING" =>
                /\ Len(u.subs) = 2
                /\ Arity(u) = Arity(u.subs[1]) + Arity(u.subs[2])
            /\ u.kind = "UNION" =>
                /\ Len(u.subs) >= 2
                /\ \A i \in 1..Len(u.subs) : Arity(u.subs[i]) = Arity(u)

\* C5 happens: a Union of two scalars, of arity 1, and a Tuple of arity 2
C5_Witness ==
    /\ ResolvedType
    /\ \/ ptype = UnionOf(<<INT, STR>>)
       \/ ptype = TupleType(<<INT, STR>>)
    /\ Arity(ptype) \in {1, 2}

SingleCase == op = "match_click_type" /\ Len(types) = 1

\* C9: match_click_type on one candidate type always returns a Parameter
\* Type, by the first rule that matches, in this order: extra_types, none
\* marker, scalar primitive, Parameter Type instance (returned unchanged),
\* enumeration (an EnumChoice with the caller's case flag), alias table,
\* otherwise UNPROCESSED; so an entry of extra_types wins over every
\* built-in rule.
C9_MatchClickTypeRuleOrder ==
    SingleCase =>
        LET c == types[1]
            over == InDict(kwargs.extra_types, c)
        IN /\ cfgError = ""
           /\ ptype # NoType
           /\ over => ptype = DictValue(kwargs.extra_types, c)
           /\ (~over /\ c \in NONE_TYPES) => ptype = NONE
           /\ (~over /\ c \in SCALAR_TYPES) =>
                ptype \in {INT, FLOAT, BOOL, STR, FUNC_BYTES}
           /\ (~over /\ c = Py("int")) => ptype = INT
           /\ (~over /\ c = Py("str")) => ptype = STR
           /\ (~over /\ c.ck = "param") => ptype = c.pt
           /\ (~over /\ IsEnumClass(c)) =>
                /\ ptype.kind = "ENUM"
                /\ ptype.enum = EnumMembers(c.name)
                /\ kwargs.case_sensitive_enums => ptype.case_sensitive
                /\ ptype = EnumChoice(EnumMembers(c.name),
                                      kwargs.case_sensitive_enums)
           /\ (~over /\ c \in AliasKeys) => ptype.kind = "PATH"
           /\ (~over /\ c = Py("Any")) => ptype = UNPROCESSED

\* C9 happens: {int: STRING} makes int resolve to STRING
C9_Witness ==
    /\ SingleCase
    /\ types = <<Py("int")>>
    /\ kwargs.extra_types = {<<Py("int"), STR>>}
    /\ ptype = STR

CompositeCase ==
    /\ op = "match_click_type_from_field"
    /\ field.sub_fields # <<>>

\* the i-th sub-field, resolved recursively with the same settings
Sub(i) == MatchClickTypeFromField(field.sub_fields[i], kwargs)
SubTypes == [i \in 1..Len(field.sub_fields) |-> Sub(i).t]
SubsResolve == \A i \in 1..Len(field.sub_fields) : Sub(i).err = ""

\* the mapping of the recursively resolved key field and the value type
\* resolved from the element type
MappingOfField ==
    LET key_type == MatchClickTypeFromField(field.key_field[1], kwargs)
    IN key_type.err = "" =>
        /\ cfgError = ""
        /\ ptype = MappingType(key_type.t,
                               MatchClickType(<<field.type_>>, kwargs).t)

\* what match_click_type makes of a resolved sub-type: its override if it is
\* a key of extra_types, else the sub-type itself
Overridden(t) ==
    IF InDict(kwargs.extra_types, Param(t))
    THEN DictValue(kwargs.extra_types, Param(t))
    ELSE t

\* C10 as stated: on a field with sub-fields, a mapping-like shape gives the
\* Mapping of the resolved key field and value type; otherwise the sub-fields
\* are resolved in order, with the same extra_types and case_sensitive_enums,
\* and shape TUPLE wraps the results in a Tuple of the same order and count,
\* while any other shape returns a single result unchanged and combines two
\* or more into a Union in sub-field order.
C10_CompositeResolution ==
    CompositeCase =>
        /\ field.shape \in MAPPING_LIKE_SHAPES => MappingOfField
        /\ (field.shape \notin MAPPING_LIKE_SHAPES /\ SubsResolve) =>
            /\ field.shape = "TUPLE" =>
                /\ cfgError = ""
                /\ ptype = TupleType(SubTypes)
            /\ (field.shape # "TUPLE" /\ Len(SubTypes) = 1) =>
                /\ cfgError = ""
                /\ ptype = SubTypes[1]
            /\ (field.shape # "TUPLE" /\ Len(SubTypes) > 1) =>
                /\ cfgError = UnionInitError(SubTypes)
                /\ cfgError = "" => ptype = UnionOf(SubTypes)

\* C10 as amended: the same, except that for a shape other than TUPLE every
\* resolved sub-type goes through match_click_type once more, which replaces
\* a sub-type that is itself a key of extra_types by its override; a single
\* result is returned so, two or more are combined so into a Union (which
\* UnionType may reject).
C10_CompositeResolutionAmended ==
    CompositeCase =>
        /\ field.shape \in MAPPING_LIKE_SHAPES => MappingOfField
        /\ (field.shape \notin MAPPING_LIKE_SHAPES /\ SubsResolve) =>
            LET over == [i \in 1..Len(SubTypes) |-> Overridden(SubTypes[i])]
            IN /\ field.shape = "TUPLE" =>
                    /\ cfgError = ""
                    /\ ptype = TupleType(SubTypes)
               /\ (field.shape # "TUPLE" /\ Len(SubTypes) = 1) =>
                    /\ cfgError = ""
                    /\ ptype = over[1]
               /\ (field.shape # "TUPLE" /\ Len(SubTypes) > 1) =>
                    /\ cfgError = UnionInitError(over)
                    /\ cfgError = "" => ptype = UnionOf(over)

\* C10 happens: a Union[int, str] field under {int: STRING} resolves both
\* sub-fields with that setting, and a list resolves its one sub-field
C10_Witness ==
    /\ CompositeCase
    /\ field.shape = "SINGLETON"
    /\ Len(field.sub_fields) = 2
    /\ field.sub_fields[1].type_ = Py("int")
    /\ field.sub_fields[2].type_ = Py("StrEnum")
    /\ kwargs = Kwargs({<<Py("int"), STR>>}, TRUE)
    /\ ptype = UnionOf(<<STR, EnumChoice(EnumMembers("StrEnum"), TRUE)>>)

LeafNoneCase ==
    /\ op = "match_click_type_from_field"
    /\ field.sub_fields = <<>>
    /\ (field.shape = "TUPLE" \/ field.type_ = Py("None"))

\* C11: for a field without sub-fields whose shape is TUPLE or whose declared
\* type is absent, match_click_type_from_field returns the None-type whatever
\* extra_types holds; the None-type has arity 0 and its convert returns None
\* for every input.
C11_LeafNoneType ==
    LeafNoneCase =>
        /\ cfgError = ""
        /\ ptype = NONE
        /\ Arity(ptype) = 0
        /\ \A v \in RawValues : Convert(ptype, v) = Ok(NoneV)

\* C11 happens: a field of absent type resolved while extra_types overrides
\* the none marker
C11_Witness ==
    /\ LeafNoneCase
    /\ field.type_ = Py("None")
    /\ kwargs.extra_types = {<<Py("None"), STR>>}
    /\ ptype = NONE
    /\ Convert(ptype, Tup(<<Tok("1"), Tok("a")>>)) = Ok(NoneV)


(***************************************************************************)
(* Claims about the option of a model field, checked under SpecOption.     *)
(***************************************************************************)
RECURSIVE HasMember(_)
\* an enum member, or a container with one in it, at any depth
HasMember(v) ==
    \/ IsEnumMember(v)
    \/ \E i \in 1..Len(v.items) : HasMember(v.items[i])

RECURSIVE Supported(_)
\* a scalar, an enum member, or a list of such, of any nesting depth
Supported(v) ==
    \/ IsScalar(v)
    \/ IsEnumMember(v)
    \/ /\ v.vk = "list"
       /\ \A i \in 1..Len(v.items) : Supported(v.items[i])

RECURSIVE SameButMembers(_, _)
\* n is d with every enum member replaced by its underlying value
SameButMembers(d, n) ==
    IF IsEnumMember(d) THEN n = MemberValue(d)
    ELSE IF d.vk = "list"
    THEN /\ n.vk = "list"
         /\ Len(n.items) = Len(d.items)
         /\ \A i \in 1..Len(d.items) : SameButMembers(d.items[i], n.items[i])
    ELSE n = d

\* C17: convert_default turns an enum member into its underlying value,
\* returns a scalar unchanged, turns any other sequence into the list of its
\* elements normalized by the same rule (same length and order), and returns
\* anything else unchanged; for a scalar, an enum member or a list of any
\* depth mixing them the result holds no enum member and every other element
\* is unchanged.
C17_ConvertDefault ==
    op = "convert_default" =>
        /\ IsEnumMember(default) => normalized = MemberValue(default)
        /\ (~IsEnumMember(default) /\ IsScalar(default)) =>
            normalized = default
        /\ (~IsEnumMember(default) /\ ~IsScalar(default)
                /\ IsSequence(default)) =>
            /\ normalized.vk = "list"
            /\ Len(normalized.items) = Len(default.items)
            /\ \A i \in 1..Len(default.items) :
                normalized.items[i] = ConvertDefault(default.items[i])
        /\ (~IsEnumMember(default) /\ ~IsScalar(default)
                /\ ~IsSequence(default)) =>
            normalized = default
        /\ Supported(default) =>
            /\ ~HasMember(normalized)
            /\ SameButMembers(default, normalized)

\* C17 happens: a member in a list in a list
C17_Witness ==
    /\ op = "convert_default"
    /\ default = ListV(<<ListV(<<Member("enum_int", "1")>>)>>)
    /\ normalized = ListV(<<ListV(<<IntV("1")>>)>>)

OptionBuilt == op = "option_from_model_field" /\ cfgError = ""

\* the setting k of the option is the caller's if the caller supplied k, and
\* the derived value otherwise
CallerOr(k, derived) ==
    /\ k \in DOMAIN option.settings
    /\ option.settings[k] =
        (IF k \in DOMAIN option_kwargs THEN option_kwargs[k] ELSE derived)

\* the setting k of the option is there only if the caller supplied it
CallerOnly(k) ==
    k \in DOMAIN option.settings =>
        /\ k \in DOMAIN option_kwargs
        /\ option.settings[k] = option_kwargs[k]

\* C18: when the normalized default is None, neither "default" nor
\* "show_default" is added to the option settings; for any other normalized
\* default, falsy ones included, both are set, default to the normalized
\* value and show_default to True, unless the caller supplied them.
C18_DefaultSettings ==
    OptionBuilt =>
        LET d == ConvertDefault(mfield.default)
        IN /\ d = NoneV => CallerOnly("default") /\ CallerOnly("show_default")
           /\ d # NoneV =>
                /\ CallerOr("default", d)
                /\ CallerOr("show_default", PyBool(TRUE))

\* C18 happens: the falsy default 0 is set and shown
C18_Witness ==
    /\ OptionBuilt
    /\ mfield.default = IntV("0")
    /\ option_kwargs = <<>>
    /\ option.settings["default"] = IntV("0")
    /\ option.settings["show_default"] = PyBool(TRUE)

\* C19: every setting the caller passes through reaches the option with the
\* caller's value; the derived values (is_flag for a None-type, multiple for
\* a multiple-values shape, required, type, help from a non-empty
\* description, envvar when bound, the validation callback) are used only
\* for keys the caller did not supply.
C19_CallerSettingsWin ==
    OptionBuilt =>
        LET click_type ==
                MatchClickTypeFromField(
                    mfield.field,
                    Kwargs(config.extra_types, config.case_sensitive_enums)).t
            bound == config.apply_env_vars /\ mfield.env_names # <<>>
        IN /\ \A k \in DOMAIN option_kwargs : CallerOr(k, NoneV)
           /\ DOMAIN option.settings \subseteq
                DOMAIN option_kwargs \cup DerivedKeys
           /\ IF click_type.kind = "NONE"
              THEN CallerOr("is_flag", PyBool(TRUE))
              ELSE CallerOnly("is_flag")
           /\ IF mfield.field.shape \in MULTIPLE_VALUES_SHAPES
              THEN CallerOr("multiple", PyBool(TRUE))
              ELSE CallerOnly("multiple")
           /\ CallerOr("required", PyBool(mfield.required))
           /\ CallerOr("type", click_type)
           /\ IF mfield.description # ""
              THEN CallerOr("help", Tok(mfield.description))
              ELSE CallerOnly("help")
           /\ IF bound
              THEN CallerOr("envvar", Tok(mfield.env_names[1]))
              ELSE CallerOnly("envvar")
           /\ CallerOr("callback",
                       FieldValidator(mfield, <<mfield>>,
                                      config.apply_model_validators))

\* C19 happens: the caller's type is kept on a None-type flag option
C19_Witness ==
    /\ OptionBuilt
    /\ option_kwargs = ("type" :> CallerValue("type"))
    /\ mfield.field.type_ = Py("None")
    /\ option.settings["type"] = CallerValue("type")
    /\ option.settings["is_flag"] = PyBool(TRUE)
    /\ option.settings["required"] = PyBool(mfield.required)


(***************************************************************************)
(* Claims about the validation callback, checked under SpecValidator.      *)
(***************************************************************************)
\* the type of the value a field of this shape is validated as, the raw
\* value being a tuple
ReshapedKind(shape) ==
    CASE shape \in {"LIST"} -> "list"
      [] shape = "SET" -> "set"
      [] shape = "FROZENSET" -> "frozenset"
      [] shape = "ITERABLE" -> "iterator"
      [] shape = "DEQUE" -> "deque"
      [] shape \in {"DICT", "MAPPING"} -> "dict"
      [] shape = "DEFAULTDICT" -> "defaultdict"
      [] OTHER -> raw.vk

\* C16: the callback built by create_field_validator reshapes the raw value
\* first and validates second: with apply_model_validators on, the field's
\* validator is run once, on the reshaped value, with an empty values
\* context and the field name as location; if it reports errors the callback
\* fails with a parameter error carrying the first error's message and
\* returns no value, otherwise it returns the validator's value; with
\* apply_model_validators off the validator is not run and the reshaped
\* value is returned.
C16_ReshapeThenValidate ==
    op = "field_validator" =>
        /\ Len(calls) >= 1
        /\ calls[1].fn = "convert_to_shape_type"
        /\ calls[1].arg = raw
        /\ calls[1].out.vk = ReshapedKind(callback.field.field.shape)
        /\ \A i \in 2..Len(calls) : calls[i].fn = "validate"
        /\ callback.apply_model_validators =>
            /\ Len(calls) = 2
            /\ calls[2].arg = calls[1].out
            /\ calls[2].values = <<>>
            /\ calls[2].loc = callback.field.name
            /\ calls[2].cls = callback.model
            /\ calls[2].result.errors # <<>> =>
                /\ ~outcome.ok
                /\ outcome.exc = "BadParameter"
                /\ outcome.about = Tok(calls[2].result.errors[1])
                /\ outcome.val = NoneV
            /\ calls[2].result.errors = <<>> =>
                outcome = Ok(calls[2].result.value)
        /\ ~callback.apply_model_validators =>
            /\ Len(calls) = 1
            /\ outcome = Ok(calls[1].out)

\* C16 happens: the tuple of a list field is validated as a list, and the
\* validator's first error is raised
C16_Witness ==
    /\ op = "field_validator"
    /\ callback.apply_model_validators
    /\ callback.field.field.shape = "LIST"
    /\ raw = Tup(<<Tok("1"), Tok("a")>>)
    /\ calls[2].arg = ListV(<<Tok("1"), Tok("a")>>)
    /\ calls[2].result.errors = <<"error 1", "error 2">>
    /\ outcome = Raise("BadParameter", "run_model_validator", Tok("error 1"))


(***************************************************************************)
(* Claims about calculate_fields, checked under SpecFields.                *)
(***************************************************************************)
\* the place of a field name in the model's declaration order
DeclaredAt(model_, name) ==
    CHOOSE i \in 1..Len(model_) : model_[i].name = name

\* a selection without the names that are no fields of the model
OnlyFields(model_, selection) ==
    IF selection.given
    THEN Some(selection.v \cap Range(FieldsKeys(model_)))
    ELSE selection

\* C12: calculate_fields returns exactly the declared field names that are
\* in include (when given) and not in exclude (when given), each once, in
\* declaration order; names that are no model fields have no effect, a name
\* in both sets is excluded, and the field table, include and exclude are
\* left as they were.
C12_CalculateFields ==
    [][op' = "calculate_fields" =>
        LET selected ==
                {k \in Range(FieldsKeys(model)) :
                    /\ include.given => k \in include.v
                    /\ exclude.given => k \notin exclude.v}
        IN /\ Range(field_names') = selected
           /\ Len(field_names') = Cardinality(selected)
           /\ \A i, j \in 1..Len(field_names') :
                i < j => DeclaredAt(model, field_names'[i])
                            < DeclaredAt(model, field_names'[j])
           /\ field_names' = CalculateFields(model, OnlyFields(model, include),
                                             OnlyFields(model, exclude))
           /\ \A k \in Range(field_names') :
                ~(exclude.given /\ k \in exclude.v)
           /\ model' = model
           /\ include' = include
           /\ exclude' = exclude]_vars

\* C12 happens: two fields declared int_val first are both included, with a
\* name that is no field, and the name excluded is no field either
C12_Witness ==
    /\ op = "calculate_fields"
    /\ FieldsKeys(model) = <<"int_val", "bool_val">>
    /\ include = Some({"bool_val", "int_val", "other"})
    /\ exclude = Some({"other"})
    /\ field_names = <<"int_val", "bool_val">>


(***************************************************************************)
(* Claims about the decorator and its wrapper, checked under               *)
(* SpecDecorator.                                                          *)
(***************************************************************************)
\* C13: applying the decorator builds and attaches exactly one option per
\* selected field, in reverse of the order calculate_fields returned, each
\* attached to the result of the attach before it, every option built with
\* the same flags and pass-through settings; the function is not called.
C13_DecoratorAttachesInReverse ==
    op = "decorator" =>
        LET n == Len(field_names)
        IN /\ field_names = CalculateFields(model, include, exclude)
           /\ Len(options) = n
           /\ \A i \in 1..n :
                /\ options[i].field_name = field_names[n + 1 - i]
                /\ options[i].model = model
                /\ options[i].config = config
                /\ options[i].settings = option_kwargs
                /\ options[i].option.name = field_names[n + 1 - i]
           /\ Len(func) = n
           /\ \A i \in 1..n : func[i] = options[i].option
           /\ funcCalls = <<>>
           /\ result = NoneV

\* C13 happens: bool_val and int_val are selected, int_val's option is built
\* and attached first
C13_Witness ==
    /\ op = "decorator"
    /\ field_names = <<"bool_val", "int_val">>
    /\ Len(func) = 2
    /\ func[1].name = "int_val"
    /\ func[2].name = "bool_val"
    /\ func[2].key = "--bool-val/--no-bool-val"

WrapperCalled == op = "wrapper"

\* C14: with to_kwarg configured the wrapper calls the function with the
\* positional arguments unchanged, under to_kwarg a mapping of exactly the
\* incoming keyword arguments whose key is a field name of the model, every
\* other incoming keyword argument unchanged at the top level, and no model
\* field name left at the top level (but to_kwarg itself, should it be one);
\* it returns the function's value; with to_kwarg absent the arguments are
\* passed through unchanged.
C14_WrapperCollectsModelFields ==
    WrapperCalled =>
        LET call == funcCalls[1]
            names == Range(FieldsKeys(model))
        IN /\ Len(funcCalls) = 1
           /\ call.args = inArgs
           /\ result = call.returned
           /\ ~to_kwarg.given => call.kwargs = inKwargs
           /\ to_kwarg.given =>
                /\ to_kwarg.v \in DOMAIN call.kwargs
                /\ call.kwargs[to_kwarg.v] =
                        MappingV(Restrict(inKwargs, names))
                /\ \A k \in DOMAIN inKwargs \ (names \cup {to_kwarg.v}) :
                        /\ k \in DOMAIN call.kwargs
                        /\ call.kwargs[k] = inKwargs[k]
                /\ DOMAIN call.kwargs \cap names \subseteq {to_kwarg.v}

\* C15: with to_kwarg configured, whenever the to_kwarg name is a key of the
\* incoming keyword arguments, a model field name or not, the wrapper emits
\* one warning, still calls the function, and the nested mapping replaces
\* the incoming value; when the name is not among them no warning is
\* emitted.
C15_WarnsWhenTargetIncoming ==
    (WrapperCalled /\ to_kwarg.given) =>
        /\ Len(funcCalls) = 1
        /\ funcCalls[1].kwargs[to_kwarg.v].vk = "dict"
        /\ to_kwarg.v \in DOMAIN inKwargs => Len(warned) = 1
        /\ to_kwarg.v \notin DOMAIN inKwargs => warned = <<>>


(***************************************************************************)
(* Claims about the sequences TupleType.convert accepts, checked under     *)
(* SpecTuple.                                                              *)
(***************************************************************************)
\* C20: TupleType.convert accepts a flat sequence of raw tokens or a single
\* value that is no sequence: a sequence of tokens (as long as the arity) is
\* consumed token by token, the i-th subtype getting the tokens of its
\* window, and a single token is converted as the one-element sequence of it
\* is.
C20_AcceptsSequenceOrSingle ==
    (op = "convert" /\ IsTupleKind(ptype)) =>
        /\ (raw.vk \in {"tuple", "list"}
                /\ Len(raw.items) = Arity(ptype)) =>
            /\ \A i \in 1..Len(calls) :
                calls[i].arg = Window(raw.items, ptype.subs, i)
            /\ outcome.ok => TokensOf(calls) = raw.items
        /\ raw.vk = "str" =>
            /\ outcome = Convert(ptype, Tup(<<raw>>))
            /\ calls = ConvertLog(ptype, Tup(<<raw>>)).calls


(***************************************************************************)
(* Claims about the labels of an EnumChoice and their way back to the      *)
(* members, checked under SpecEnum.                                        *)
(***************************************************************************)
\* C21: for every enumeration and either case-sensitivity setting, the choice
\* list holds one label per member, the string form of the member's
\* underlying value, in declaration order; and converting the string form of
\* a member's underlying value returns that member, not another one.
C21_LabelRoundTrip ==
    ptype.kind = "ENUM" =>
        /\ Len(ptype.choices) = Len(ptype.enum)
        /\ \A i \in 1..Len(ptype.enum) :
            ptype.choices[i] = Label(ptype.enum[i])
        /\ (op = "convert" /\ raw.vk = "str") =>
            \A i \in 1..Len(ptype.enum) :
                Label(ptype.enum[i]) = raw.tok => outcome = Ok(ptype.enum[i])


====
